---- MODULE Spec2Model ----
(***************************************************************************)
(* Model of the ingestion-and-aggregation pipeline.                        *)
(*   Spec, FailSpec, FairSpec: one invocation of fetch_klines (spot or     *)
(*     futures) or fetch_funding_rates against an exchange whose dataset   *)
(*     is fixed before the call; the generator is cut at its suspension    *)
(*     points (the awaited GET, each yield) and at the loop tests between; *)
(*     FailSpec lets the transport fail, FairSpec adds that the transport  *)
(*     answers and the consumer keeps reading.                             *)
(*   StreamSpec: one invocation of a stream_* generator over one           *)
(*     websocket connection.                                               *)
(*   ParseSpec: the _parse_* functions applied to payloads with absent     *)
(*     fields.                                                             *)
(*   AggSpec: build_tick_bars, build_volume_bars and build_dollar_bars     *)
(*     applied to a trade sequence.                                        *)
(*   ScenarioSpec: build_volume_bars applied to one fixed trade sequence.  *)
(*   NormSpec: the to_* normalizers applied to raw wire records.           *)
(*   BrokerSpec: the methods of one LighterBroker, called in any order.    *)
(*   ConcSpec: two paginator invocations of one connector, interleaved at  *)
(*     their suspension points.                                            *)
(*   MalformedSpec: StreamSpec over a feed that may carry a malformed      *)
(*     message.                                                            *)
(*   ClientSpec: time_bars and funding_rates of the clients, consuming a   *)
(*     paginator that yields raw records and then ends or raises.          *)
(***************************************************************************)
EXTENDS Integers, Sequences, FiniteSets, TLC

\* ---------------------------------------------------------------- bounds
MaxTime == 5        \* epoch milliseconds range over 0..MaxTime
MaxRecords == 5     \* most records the exchange holds

MaxPage == 2        \* page cap the model runs with
MaxFeed == 8        \* most messages a connection delivers
MaxTrades == 4      \* longest trade sequence handed to an aggregator
MaxTradePrice == 2  \* trade prices range over 1..MaxTradePrice (price units)
MaxTradeQty == 2    \* trade quantities range over 1..MaxTradeQty (lot units)
MaxGap == 1         \* a trade follows the previous one by 0..MaxGap ticks
MaxThreshold == 4   \* thresholds range over -1..MaxThreshold
MaxFrac == 8        \* most digits after the point of a wire decimal

\* Page caps.  The code sets both to 1000; the model scales them down to
\* MaxPage so that multi-page datasets fit in MaxRecords.
KLINE_PAGE == MaxPage
FUNDING_PAGE == MaxPage

None == -1          \* Python None for the optional end_ms

Times == 0..MaxTime

Methods == {"spot_klines", "futures_klines", "funding_rates"}
KlineMethods == {"spot_klines", "futures_klines"}

VARIABLES
    \* --- paginator (fetch_klines, fetch_funding_rates)
    method,     \* which generator this behaviour invokes
    source,     \* the exchange's records (wire rows), ascending
    start_ms,   \* argument
    end_ms,     \* argument (None when omitted; funding only)
    pc,         \* position of the generator
    cursor,     \* local variable cursor
    batch,      \* local variable batch (the decoded response)
    i,          \* position of the for loop in batch (1-based, next row)
    emitted,    \* records the consumer has received, in order
    requests,   \* params of every GET issued, in order
    responses,  \* every response received, in order
    in_flight,  \* GETs sent and not yet answered
    error,      \* exception raised to the consumer ("" when none)
    \* --- stream filter (stream_klines, stream_trades, stream_mark_price)
    stream,     \* which stream_* generator runs
    ws,         \* state of the websocket connection
    connections,\* number of websockets.connect calls made
    feed,       \* messages the connection delivered, in arrival order
    out,        \* records the generator yielded, in order
    raised,     \* exception the stream generator ended with ("" when none)
    \* --- bar aggregator (build_tick_bars, build_volume_bars, build_dollar_bars)
    trades,     \* the input trade sequence
    policy,     \* which build_* function was called
    threshold,  \* its threshold argument
    bars,       \* the returned list of bars
    buckets,    \* the bucket handed to each _make_*_bar call, in order
    bucket,     \* the open bucket when the input is exhausted
    cum,        \* the accumulator when the input is exhausted
    closing,    \* the accumulator at each closure, in order
    again,      \* what each later call on the same arguments returned
    \* --- wire parsers
    parser,     \* which _parse_* function is applied
    payload,    \* the decoded JSON payload
    parsed,     \* the record it returned (or the exception it raised)
    \* --- normalizers (to_time_bar, to_trade, to_funding_rate, ...)
    normalizer, \* which to_* function is applied
    raw,        \* its raw argument
    interval,   \* its interval argument (kline normalizers)
    normalized, \* the canonical value it returned (<<>> before the call)
    \* --- LighterBroker
    symbol_map, \* self._symbol_map: the items of the dict, in order
    index_map,  \* self._index_map: likewise
    op,         \* the method called last and its arguments
    result,     \* what that call returned (or the exception it raised)
    sent,       \* the requests that call sent to the exchange, in order
    auth,       \* the auth tokens that call had the signer create
    held,       \* the orders open_orders has handed to the caller: their
                \* client_order_id and the exchange's indices of each
    \* --- concurrent paginator invocations
    connector,  \* the connector class both generators belong to
    frames,     \* each generator's frame: its arguments, locals, position
    wire,       \* every GET issued over the shared client, in order
    \* --- clients (time_bars, funding_rates)
    call,       \* the client method called and its arguments
    feeder,     \* the paginator it consumes: running, ended or raised
    received,   \* the raw records the paginator has yielded, in order
    collected,  \* the local list (bars / rates)
    outcome     \* what the call returned or raised (<<>> while it runs)

pagVars == <<method, source, start_ms, end_ms, pc, cursor, batch, i,
             emitted, requests, responses, in_flight, error>>

streamVars == <<stream, ws, connections, feed, out, raised>>

aggVars == <<trades, policy, threshold, bars, buckets, bucket, cum, closing,
             again>>

parseVars == <<parser, payload, parsed>>

normVars == <<normalizer, raw, interval, normalized>>

brokerVars == <<symbol_map, index_map, op, result, sent, auth, held>>

concVars == <<connector, frames, wire>>

clientVars == <<call, feeder, received, collected, outcome>>

vars == <<pagVars, streamVars, aggVars, parseVars, normVars, brokerVars,
          concVars, clientVars>>

notPaginator == <<streamVars, aggVars, parseVars, normVars, brokerVars,
                  concVars, clientVars>>
notStream == <<pagVars, aggVars, parseVars, normVars, brokerVars,
               concVars, clientVars>>
notAggregator == <<pagVars, streamVars, parseVars, normVars, brokerVars,
                   concVars, clientVars>>
notParser == <<pagVars, streamVars, aggVars, normVars, brokerVars,
               concVars, clientVars>>
notNormalizer == <<pagVars, streamVars, aggVars, parseVars, brokerVars,
                   concVars, clientVars>>
notBroker == <<pagVars, streamVars, aggVars, parseVars, normVars,
               concVars, clientVars>>
notConc == <<pagVars, streamVars, aggVars, parseVars, normVars, brokerVars,
            clientVars>>
notClient == <<pagVars, streamVars, aggVars, parseVars, normVars, brokerVars,
              concVars>>

\* ------------------------------------------------------------ wire rows
\* Decimal text as the exchange sends it ("0.00010000"): its digits and the
\* number of digits after the point.
DecText(d, sc) == [digits |-> d, scale |-> sc]

\* str(Decimal(a) * Decimal(b)): the coefficients multiply and the exponents
\* add (exact)
DecimalMulText(a, b) ==
    DecText(a.digits * b.digits, a.scale + b.scale)

SomePrice == DecText(4205, 2)
SomeQty == DecText(150, 3)
SYMBOL == "BTCUSDT"

\* the exceptions a parser can end with
KeyError == [exception |-> "KeyError"]
IndexError == [exception |-> "IndexError"]
IsException(r) == "exception" \in DOMAIN r

\* A REST kline is a JSON array of 11 used entries; the paginator reads
\* row[0] (open time) and row[6] (close time).
KlineRow(o, c) ==
    [k \in 0..10 |-> CASE k = 0 -> o
                       [] k = 6 -> c
                       [] k = 8 -> 1
                       [] k \in {1, 2, 3, 4} -> SomePrice
                       [] OTHER -> SomeQty]

\* A REST funding record is a JSON object.
FundingRow(t) ==
    [symbol |-> SYMBOL, fundingTime |-> t,
     fundingRate |-> DecText(10000, 8), markPrice |-> SomePrice]

_parse_rest_kline(row) ==
    IF (0..10) \subseteq DOMAIN row
    THEN [open_time_ms |-> row[0],
          open |-> row[1],
          high |-> row[2],
          low |-> row[3],
          close |-> row[4],
          volume |-> row[5],
          close_time_ms |-> row[6],
          quote_volume |-> row[7],
          trade_count |-> row[8],
          taker_buy_volume |-> row[9],
          taker_buy_quote_volume |-> row[10]]
    ELSE IndexError

_parse_ws_kline(k) ==
    IF {"t", "o", "h", "l", "c", "v", "T", "q", "n", "V", "Q"}
           \subseteq DOMAIN k
    THEN [open_time_ms |-> k.t,
          open |-> k.o,
          high |-> k.h,
          low |-> k.l,
          close |-> k.c,
          volume |-> k.v,
          close_time_ms |-> k.T,
          quote_volume |-> k.q,
          trade_count |-> k.n,
          taker_buy_volume |-> k.V,
          taker_buy_quote_volume |-> k.Q]
    ELSE KeyError

_parse_rest_trade(row) ==
    IF {"id", "price", "qty", "quoteQty", "time", "isBuyerMaker"}
           \subseteq DOMAIN row
    THEN [id |-> row.id,
          price |-> row.price,
          qty |-> row.qty,
          quote_qty |-> row.quoteQty,
          time |-> row.time,
          is_buyer_maker |-> row.isBuyerMaker]
    ELSE KeyError

\* the WS trade stream omits quoteQty: it is computed from price x qty
_parse_ws_trade(data) ==
    IF {"p", "q", "t", "T", "m"} \subseteq DOMAIN data
    THEN [id |-> data.t,
          price |-> data.p,
          qty |-> data.q,
          quote_qty |-> DecimalMulText(data.p, data.q),
          time |-> data.T,
          is_buyer_maker |-> data.m]
    ELSE KeyError

\* mark_price=row.get("markPrice", "0")
_parse_funding_rate(row) ==
    IF {"symbol", "fundingTime", "fundingRate"} \subseteq DOMAIN row
    THEN [symbol |-> row.symbol,
          funding_time_ms |-> row.fundingTime,
          funding_rate |-> row.fundingRate,
          mark_price |-> IF "markPrice" \in DOMAIN row
                         THEN row.markPrice ELSE DecText(0, 0)]
    ELSE KeyError

_parse_mark_price(data) ==
    IF {"symbol", "markPrice", "indexPrice", "lastFundingRate",
        "nextFundingTime", "time"} \subseteq DOMAIN data
    THEN [symbol |-> data.symbol,
          mark_price |-> data.markPrice,
          index_price |-> data.indexPrice,
          last_funding_rate |-> data.lastFundingRate,
          next_funding_time_ms |-> data.nextFundingTime,
          time_ms |-> data.time]
    ELSE KeyError

_parse_ws_mark_price(data) ==
    IF {"s", "p", "i", "r", "T", "E"} \subseteq DOMAIN data
    THEN [symbol |-> data.s,
          mark_price |-> data.p,
          index_price |-> data.i,
          last_funding_rate |-> data.r,
          next_funding_time_ms |-> data.T,
          time_ms |-> data.E]
    ELSE KeyError

Last(s) == s[Len(s)]

Take(s, n) == IF Len(s) <= n THEN s ELSE SubSeq(s, 1, n)

\* ------------------------------------------------------------- exchange
\* /api/v3/klines and /fapi/v1/klines: the first `limit` klines, ascending,
\* whose open time lies in [startTime, endTime].
KlinesEndpoint(params) ==
    Take(SelectSeq(source,
                   LAMBDA row : /\ params.startTime <= row[0]
                                /\ row[0] <= params.endTime),
         params.limit)

\* /fapi/v1/fundingRate: the first `limit` settlements, ascending, whose
\* settlement time lies in [startTime, endTime] (no upper end when the
\* endTime parameter is absent).
FundingEndpoint(params) ==
    Take(SelectSeq(source,
                   LAMBDA row : /\ params.startTime <= row.fundingTime
                                /\ \/ params.endTime = None
                                   \/ row.fundingTime <= params.endTime),
         params.limit)

\* ---------------------------------------------------------------- Init
\* the components a behaviour does not exercise stay as constructed
PaginatorIdle ==
    /\ method = "none"
    /\ source = <<>>
    /\ start_ms = 0
    /\ end_ms = None
    /\ pc = "idle"
    /\ cursor = 0
    /\ batch = <<>>
    /\ i = 1
    /\ emitted = <<>>
    /\ requests = <<>>
    /\ responses = <<>>
    /\ in_flight = 0
    /\ error = ""

StreamIdle ==
    /\ stream = "none"
    /\ ws = "none"
    /\ connections = 0
    /\ feed = <<>>
    /\ out = <<>>
    /\ raised = ""

AggregatorIdle ==
    /\ trades = <<>>
    /\ policy = "none"
    /\ threshold = 0
    /\ bars = <<>>
    /\ buckets = <<>>
    /\ bucket = <<>>
    /\ cum = 0
    /\ closing = <<>>
    /\ again = <<>>

ParserIdle ==
    /\ parser = "none"
    /\ payload = <<>>
    /\ parsed = <<>>

NormalizerIdle ==
    /\ normalizer = "none"
    /\ raw = <<>>
    /\ interval = <<>>
    /\ normalized = <<>>

BrokerIdle ==
    /\ symbol_map = <<>>
    /\ index_map = <<>>
    /\ op = <<>>
    /\ result = <<>>
    /\ sent = <<>>
    /\ auth = 0
    /\ held = {}

ConcIdle ==
    /\ connector = "none"
    /\ frames = <<>>
    /\ wire = <<>>

ClientIdle ==
    /\ call = <<>>
    /\ feeder = "none"
    /\ received = <<>>
    /\ collected = <<>>
    /\ outcome = <<>>

Init ==
    /\ method \in Methods
    /\ source = <<>>
    /\ start_ms = 0
    /\ end_ms = None
    /\ pc = "setup"
    /\ cursor = 0
    /\ batch = <<>>
    /\ i = 1
    /\ emitted = <<>>
    /\ requests = <<>>
    /\ responses = <<>>
    /\ in_flight = 0
    /\ error = ""
    /\ StreamIdle
    /\ AggregatorIdle
    /\ ParserIdle
    /\ NormalizerIdle
    /\ BrokerIdle
    /\ ConcIdle
    /\ ClientIdle

\* The exchange closes one more kline: it opens after the previous one
\* closed and closes no earlier than it opens.
ExchangeKline(o, c) ==
    /\ pc = "setup"
    /\ method \in KlineMethods
    /\ Len(source) < MaxRecords
    /\ o <= c
    /\ source # <<>> => Last(source)[6] < o
    /\ source' = Append(source, KlineRow(o, c))
    /\ UNCHANGED <<method, start_ms, end_ms, pc, cursor, batch, i,
                   emitted, requests, responses, in_flight>>
    /\ UNCHANGED <<error, notPaginator>>

\* The exchange settles funding once more, later than every settlement
\* before.
ExchangeFunding(t) ==
    /\ pc = "setup"
    /\ method = "funding_rates"
    /\ Len(source) < MaxRecords
    /\ source # <<>> => Last(source).fundingTime < t
    /\ source' = Append(source, FundingRow(t))
    /\ UNCHANGED <<method, start_ms, end_ms, pc, cursor, batch, i,
                   emitted, requests, responses, in_flight>>
    /\ UNCHANGED <<error, notPaginator>>

\* ------------------------------------------------------- fetch_klines
\* cursor = start_ms
FetchKlines(s, e) ==
    /\ pc = "setup"
    /\ method \in KlineMethods
    /\ start_ms' = s
    /\ end_ms' = e
    /\ cursor' = s
    /\ pc' = "while"
    /\ UNCHANGED <<method, source, batch, i, emitted, requests, responses,
                   in_flight>>
    /\ UNCHANGED <<error, notPaginator>>

\* mutants of the while test: an inclusive test, and no test at all
KlinesWhile_Inclusive(c, e) == c <= e

KlinesWhile_Always(c, e) == TRUE

\* while cursor < end_ms
KlinesWhile(c, e) == c < e

\* mutant of the break test: only an empty page ends the pagination
KlinesLastPage_OnlyEmpty(b) == Len(b) = 0

\* if len(batch) < _KLINE_PAGE: break
KlinesLastPage(b) == Len(b) < KLINE_PAGE

\* mutants of the cursor advance: from the first row of the page, and from
\* the open time of the last row
KlinesNextCursor_FirstRow(b) == b[1][6] + 1

KlinesNextCursor_OpenTime(b) == Last(b)[0] + 1

\* mutant of the cursor advance: the cursor goes back to the page's first row
KlinesNextCursor_Stuck(b) == b[1][0]

\* cursor = int(batch[-1][6]) + 1
KlinesNextCursor(b) == Last(b)[6] + 1

\* mutant of the for loop: it stops one row early
ForHasNext_OffByOne(b, k) == k < Len(b)

\* for row in batch: has the loop another row
ForHasNext(b, k) == k <= Len(b)

\* response = await self._client.get("/api/v3/klines", params={...})
KlinesGet ==
    /\ pc = "while"
    /\ method \in KlineMethods
    /\ KlinesWhile(cursor, end_ms)
    /\ requests' = Append(requests, [startTime |-> cursor,
                                     endTime |-> end_ms,
                                     limit |-> KLINE_PAGE])
    /\ in_flight' = in_flight + 1
    /\ pc' = "await"
    /\ UNCHANGED <<method, source, start_ms, end_ms, cursor, batch, i,
                   emitted, responses>>
    /\ UNCHANGED <<error, notPaginator>>

\* the while test fails: the generator returns
KlinesReturn ==
    /\ pc = "while"
    /\ method \in KlineMethods
    /\ ~KlinesWhile(cursor, end_ms)
    /\ pc' = "done"
    /\ UNCHANGED <<method, source, start_ms, end_ms, cursor, batch, i,
                   emitted, requests, responses, in_flight>>
    /\ UNCHANGED <<error, notPaginator>>

\* batch = response.json()
KlinesResponse ==
    /\ pc = "await"
    /\ method \in KlineMethods
    /\ batch' = KlinesEndpoint(Last(requests))
    /\ responses' = Append(responses, batch')
    /\ in_flight' = in_flight - 1
    /\ i' = 1
    /\ pc' = "for"
    /\ UNCHANGED <<method, source, start_ms, end_ms, cursor, emitted,
                   requests>>
    /\ UNCHANGED <<error, notPaginator>>

\* for row in batch: yield _parse_rest_kline(row)
KlinesYield ==
    /\ pc = "for"
    /\ method \in KlineMethods
    /\ ForHasNext(batch, i)
    /\ emitted' = Append(emitted, _parse_rest_kline(batch[i]))
    /\ i' = i + 1
    /\ UNCHANGED <<method, source, start_ms, end_ms, pc, cursor, batch,
                   requests, responses, in_flight>>
    /\ UNCHANGED <<error, notPaginator>>

\* if len(batch) < _KLINE_PAGE: break
KlinesBreak ==
    /\ pc = "for"
    /\ method \in KlineMethods
    /\ ~ForHasNext(batch, i)
    /\ KlinesLastPage(batch)
    /\ pc' = "done"
    /\ UNCHANGED <<method, source, start_ms, end_ms, cursor, batch, i,
                   emitted, requests, responses, in_flight>>
    /\ UNCHANGED <<error, notPaginator>>

\* cursor = int(batch[-1][6]) + 1
KlinesAdvance ==
    /\ pc = "for"
    /\ method \in KlineMethods
    /\ ~ForHasNext(batch, i)
    /\ ~KlinesLastPage(batch)
    /\ cursor' = KlinesNextCursor(batch)
    /\ pc' = "while"
    /\ UNCHANGED <<method, source, start_ms, end_ms, batch, i, emitted,
                   requests, responses, in_flight>>
    /\ UNCHANGED <<error, notPaginator>>

\* ------------------------------------------------- fetch_funding_rates
\* cursor = start_ms
FetchFundingRates(s, e) ==
    /\ pc = "setup"
    /\ method = "funding_rates"
    /\ start_ms' = s
    /\ end_ms' = e
    /\ cursor' = s
    /\ pc' = "while"
    /\ UNCHANGED <<method, source, batch, i, emitted, requests, responses,
                   in_flight>>
    /\ UNCHANGED <<error, notPaginator>>

\* while True
FundingWhile(c, e) == TRUE

\* mutant of the break test: a full page ends the pagination too
FundingLastPage_Inclusive(b) == Len(b) <= FUNDING_PAGE

\* if len(batch) < _FUNDING_PAGE: break
FundingLastPage(b) == Len(b) < FUNDING_PAGE

\* mutant of the cursor advance: the cursor goes back to the page's first
\* settlement
FundingNextCursor_FirstRow(b) == b[1].fundingTime

\* mutant of the cursor advance: the cursor stays on the last settlement
FundingNextCursor_NoPlusOne(b) == Last(b).fundingTime

\* cursor = int(batch[-1]["fundingTime"]) + 1
FundingNextCursor(b) == Last(b).fundingTime + 1

\* response = await self._client.get("/fapi/v1/fundingRate", params=params)
FundingGet ==
    /\ pc = "while"
    /\ method = "funding_rates"
    /\ FundingWhile(cursor, end_ms)
    /\ requests' = Append(requests, [startTime |-> cursor,
                                     endTime |-> end_ms,
                                     limit |-> FUNDING_PAGE])
    /\ in_flight' = in_flight + 1
    /\ pc' = "await"
    /\ UNCHANGED <<method, source, start_ms, end_ms, cursor, batch, i,
                   emitted, responses>>
    /\ UNCHANGED <<error, notPaginator>>

\* batch = response.json()
FundingResponse ==
    /\ pc = "await"
    /\ method = "funding_rates"
    /\ batch' = FundingEndpoint(Last(requests))
    /\ responses' = Append(responses, batch')
    /\ in_flight' = in_flight - 1
    /\ i' = 1
    /\ pc' = "for"
    /\ UNCHANGED <<method, source, start_ms, end_ms, cursor, emitted,
                   requests>>
    /\ UNCHANGED <<error, notPaginator>>

\* for row in batch: yield _parse_funding_rate(row)
FundingYield ==
    /\ pc = "for"
    /\ method = "funding_rates"
    /\ ForHasNext(batch, i)
    /\ emitted' = Append(emitted, _parse_funding_rate(batch[i]))
    /\ i' = i + 1
    /\ UNCHANGED <<method, source, start_ms, end_ms, pc, cursor, batch,
                   requests, responses, in_flight>>
    /\ UNCHANGED <<error, notPaginator>>

\* if len(batch) < _FUNDING_PAGE: break
FundingBreak ==
    /\ pc = "for"
    /\ method = "funding_rates"
    /\ ~ForHasNext(batch, i)
    /\ FundingLastPage(batch)
    /\ pc' = "done"
    /\ UNCHANGED <<method, source, start_ms, end_ms, cursor, batch, i,
                   emitted, requests, responses, in_flight>>
    /\ UNCHANGED <<error, notPaginator>>

\* cursor = int(batch[-1]["fundingTime"]) + 1
FundingAdvance ==
    /\ pc = "for"
    /\ method = "funding_rates"
    /\ ~ForHasNext(batch, i)
    /\ ~FundingLastPage(batch)
    /\ cursor' = FundingNextCursor(batch)
    /\ pc' = "while"
    /\ UNCHANGED <<method, source, start_ms, end_ms, batch, i, emitted,
                   requests, responses, in_flight>>
    /\ UNCHANGED <<error, notPaginator>>

\* ---------------------------------------------------------------- Next
Next ==
    \/ \E o \in Times, c \in Times : ExchangeKline(o, c)
    \/ \E t \in Times : ExchangeFunding(t)
    \/ \E s \in Times, e \in Times : FetchKlines(s, e)
    \/ KlinesGet
    \/ KlinesReturn
    \/ KlinesResponse
    \/ KlinesYield
    \/ KlinesBreak
    \/ KlinesAdvance
    \/ \E s \in Times, e \in Times \cup {None} : FetchFundingRates(s, e)
    \/ FundingGet
    \/ FundingResponse
    \/ FundingYield
    \/ FundingBreak
    \/ FundingAdvance

Spec == Init /\ [][Next]_vars

\* ------------------------------------------------- transport failure
HttpxErrors == {"RequestError", "HTTPStatusError"}

\* mutant of the failure path: the error is swallowed and the page retried
KlinesRaise_Retry(err) ==
    /\ pc = "await"
    /\ method \in KlineMethods
    /\ in_flight' = in_flight - 1
    /\ error' = err
    /\ pc' = "while"
    /\ UNCHANGED <<method, source, start_ms, end_ms, cursor, batch, i,
                   emitted, requests, responses>>
    /\ UNCHANGED notPaginator

\* self._client.get raises (connection error) or response.raise_for_status()
\* raises (non-success status): nothing catches it, the generator ends
\* with the exception
KlinesRaise(err) ==
    /\ pc = "await"
    /\ method \in KlineMethods
    /\ in_flight' = in_flight - 1
    /\ error' = err
    /\ pc' = "raised"
    /\ UNCHANGED <<method, source, start_ms, end_ms, cursor, batch, i,
                   emitted, requests, responses>>
    /\ UNCHANGED notPaginator

FundingRaise(err) ==
    /\ pc = "await"
    /\ method = "funding_rates"
    /\ in_flight' = in_flight - 1
    /\ error' = err
    /\ pc' = "raised"
    /\ UNCHANGED <<method, source, start_ms, end_ms, cursor, batch, i,
                   emitted, requests, responses>>
    /\ UNCHANGED notPaginator

\* the paginator over a transport that may fail
FailNext ==
    \/ Next
    \/ \E err \in HttpxErrors : KlinesRaise(err)
    \/ \E err \in HttpxErrors : FundingRaise(err)

FailSpec == Init /\ [][FailNext]_vars

\* One step of the generator: the transport answers or fails every request
\* and the consumer keeps reading.
GeneratorStep ==
    \/ KlinesGet \/ KlinesReturn \/ KlinesResponse
    \/ KlinesYield \/ KlinesBreak \/ KlinesAdvance
    \/ FundingGet \/ FundingResponse
    \/ FundingYield \/ FundingBreak \/ FundingAdvance
    \/ \E err \in HttpxErrors : KlinesRaise(err)
    \/ \E err \in HttpxErrors : FundingRaise(err)

FairSpec == FailSpec /\ WF_vars(GeneratorStep)

\* ---------------------------------------------------- wire payloads
Restrict(f, keys) == [k \in keys |-> f[k]]

\* a complete payload of each endpoint
WsKline(t, x) ==
    [t |-> t, T |-> t, s |-> SYMBOL, i |-> "1m",
     o |-> SomePrice, h |-> SomePrice, l |-> SomePrice, c |-> SomePrice,
     v |-> SomeQty, q |-> SomeQty, n |-> 1, V |-> SomeQty, Q |-> SomeQty,
     x |-> x]

RestTrade(id, m) ==
    [id |-> id, price |-> SomePrice, qty |-> SomeQty,
     quoteQty |-> DecimalMulText(SomePrice, SomeQty), time |-> id,
     isBuyerMaker |-> m]

WsTrade(id, m) ==
    [e |-> "trade", t |-> id, p |-> SomePrice, q |-> SomeQty, T |-> id,
     m |-> m]

RestMarkPrice(t) ==
    [symbol |-> SYMBOL, markPrice |-> SomePrice, indexPrice |-> SomePrice,
     lastFundingRate |-> DecText(10000, 8), nextFundingTime |-> t + 1,
     time |-> t]

WsMarkPrice(t, r) ==
    [e |-> "markPriceUpdate", s |-> SYMBOL, p |-> SomePrice,
     i |-> SomePrice, r |-> r, T |-> t + 1, E |-> t]

\* ------------------------------------------------------ stream filter
KlineStreams == {"spot.stream_klines", "futures.stream_klines"}
TradeStreams == {"spot.stream_trades", "futures.stream_trades"}
MarkPriceStreams == {"futures.stream_mark_price"}
Streams == KlineStreams \cup TradeStreams \cup MarkPriceStreams

StreamInit ==
    /\ PaginatorIdle
    /\ AggregatorIdle
    /\ ParserIdle
    /\ NormalizerIdle
    /\ BrokerIdle
    /\ ConcIdle
    /\ ClientIdle
    /\ stream \in Streams
    /\ ws = "none"
    /\ connections = 0
    /\ feed = <<>>
    /\ out = <<>>
    /\ raised = ""

\* number of closed klines the feed has delivered so far
RECURSIVE ClosedSoFar(_)
ClosedSoFar(f) ==
    IF f = <<>> THEN 0
    ELSE ClosedSoFar(Tail(f)) + (IF Head(f).k.x THEN 1 ELSE 0)

\* async with websockets.connect(url) as ws
StreamConnect ==
    /\ ws = "none"
    /\ ws' = "open"
    /\ connections' = connections + 1
    /\ UNCHANGED <<raised, stream, feed, out>>
    /\ UNCHANGED notStream

\* mutant of the gate: every update is forwarded
KlineForwarded_All(k) == TRUE

\* if k["x"]
KlineForwarded(k) == k.x

\* async for message in ws: data = json.loads(message); k = data["k"];
\* if k["x"]: yield _parse_ws_kline(k)
\* (updates of the bar that is forming carry its open time)
StreamKlinesMessage(x) ==
    /\ ws = "open"
    /\ stream \in KlineStreams
    /\ Len(feed) < MaxFeed
    /\ LET data == [e |-> "kline", E |-> Len(feed),
                    k |-> WsKline(ClosedSoFar(feed), x)]
           k == data.k
       IN  /\ feed' = Append(feed, data)
           /\ out' = IF KlineForwarded(k)
                     THEN Append(out, _parse_ws_kline(k))
                     ELSE out
    /\ UNCHANGED <<raised, stream, ws, connections>>
    /\ UNCHANGED notStream

\* mutant of stream_trades: the kline gate copied onto the maker flag
StreamTradesMessage_Gated(m) ==
    /\ ws = "open"
    /\ stream \in TradeStreams
    /\ Len(feed) < MaxFeed
    /\ LET data == WsTrade(Len(feed) + 1, m)
       IN  /\ feed' = Append(feed, data)
           /\ out' = IF data.m
                     THEN Append(out, _parse_ws_trade(data))
                     ELSE out
    /\ UNCHANGED <<raised, stream, ws, connections>>
    /\ UNCHANGED notStream

\* async for message in ws: data = json.loads(message);
\* yield _parse_ws_trade(data)
StreamTradesMessage(m) ==
    /\ ws = "open"
    /\ stream \in TradeStreams
    /\ Len(feed) < MaxFeed
    /\ LET data == WsTrade(Len(feed) + 1, m)
       IN  /\ feed' = Append(feed, data)
           /\ out' = Append(out, _parse_ws_trade(data))
    /\ UNCHANGED <<raised, stream, ws, connections>>
    /\ UNCHANGED notStream

\* async for message in ws: data = json.loads(message);
\* yield _parse_ws_mark_price(data)
StreamMarkPriceMessage(r) ==
    /\ ws = "open"
    /\ stream \in MarkPriceStreams
    /\ Len(feed) < MaxFeed
    /\ LET data == WsMarkPrice(Len(feed), r)
       IN  /\ feed' = Append(feed, data)
           /\ out' = Append(out, _parse_ws_mark_price(data))
    /\ UNCHANGED <<raised, stream, ws, connections>>
    /\ UNCHANGED notStream

\* the connection closes normally: the async for ends and the generator
\* returns
StreamClosed ==
    /\ ws = "open"
    /\ ws' = "closed"
    /\ UNCHANGED <<raised, stream, connections, feed, out>>
    /\ UNCHANGED notStream

\* mutant of the failure path: the generator connects again
StreamFailed_Reconnect ==
    /\ ws = "open"
    /\ connections < 2
    /\ ws' = "open"
    /\ connections' = connections + 1
    /\ UNCHANGED <<raised, stream, feed, out>>
    /\ UNCHANGED notStream

\* the connection fails: the async for raises ConnectionClosed, nothing
\* catches it, the generator ends with the exception
StreamFailed ==
    /\ ws = "open"
    /\ ws' = "failed"
    /\ UNCHANGED <<raised, stream, connections, feed, out>>
    /\ UNCHANGED notStream

FundingRates == {DecText(10000, 8), DecText(-2500, 8)}

StreamNext ==
    \/ StreamConnect
    \/ \E x \in BOOLEAN : StreamKlinesMessage(x)
    \/ \E m \in BOOLEAN : StreamTradesMessage(m)
    \/ \E r \in FundingRates : StreamMarkPriceMessage(r)
    \/ StreamClosed
    \/ StreamFailed

StreamSpec == StreamInit /\ [][StreamNext]_vars

\* ------------------------------------------------- malformed messages
JSONDecodeError == [exception |-> "JSONDecodeError"]

\* a message that is no JSON text
Undecodable == [undecodable |-> TRUE]

\* json.loads(message)
json_loads(message) ==
    IF "undecodable" \in DOMAIN message THEN JSONDecodeError ELSE message

\* the messages of a kline stream that are not decodable, lack the kline
\* object, or lack its closed indicator
MalformedKlineMessages ==
    {Undecodable,
     [e |-> "kline", E |-> 0],
     [e |-> "kline", E |-> 0,
      k |-> Restrict(WsKline(0, TRUE), DOMAIN WsKline(0, TRUE) \ {"x"})]}

\* the body of the async for of stream_klines on one message: the record
\* it yields, <<>> when it yields nothing, or the exception it raises
StreamKlinesBody(message) ==
    IF IsException(json_loads(message)) THEN json_loads(message)
    ELSE IF "k" \notin DOMAIN json_loads(message) THEN KeyError
    ELSE IF "x" \notin DOMAIN json_loads(message).k THEN KeyError
    ELSE IF KlineForwarded(json_loads(message).k)
    THEN _parse_ws_kline(json_loads(message).k)
    ELSE <<>>

\* mutant of the loop body: a message that cannot be handled is skipped
StreamKlinesMalformed_Skip(message) ==
    /\ ws = "open"
    /\ stream \in KlineStreams
    /\ Len(feed) < MaxFeed
    /\ feed' = Append(feed, message)
    /\ UNCHANGED <<raised, stream, ws, connections, out>>
    /\ UNCHANGED notStream

\* async for message in ws: data = json.loads(message); k = data["k"];
\* if k["x"]: ... on a malformed message: the exception leaves the async
\* with, which closes the connection, and ends the generator
StreamKlinesMalformed(message) ==
    /\ ws = "open"
    /\ stream \in KlineStreams
    /\ Len(feed) < MaxFeed
    /\ feed' = Append(feed, message)
    /\ IF IsException(StreamKlinesBody(message))
       THEN /\ raised' = StreamKlinesBody(message).exception
            /\ ws' = "closed"
            /\ out' = out
       ELSE /\ out' = IF StreamKlinesBody(message) = <<>> THEN out
                      ELSE Append(out, StreamKlinesBody(message))
            /\ UNCHANGED <<raised, ws>>
    /\ UNCHANGED <<stream, connections>>
    /\ UNCHANGED notStream

\* the streams over a feed that may carry a malformed message
MalformedNext ==
    \/ StreamNext
    \/ \E message \in MalformedKlineMessages : StreamKlinesMalformed(message)

MalformedSpec == StreamInit /\ [][MalformedNext]_vars

\* ------------------------------------------------------ bar aggregator
\* Decimal prices, quantities and thresholds are exact in the code; the
\* model counts them in whole price and lot units.
Thresholds == (0 - 1)..MaxThreshold

Trade(p, q, t) ==
    [symbol |-> SYMBOL, price |-> p, quantity |-> q, timestamp |-> t,
     is_buyer_maker |-> FALSE]

AggInit ==
    /\ PaginatorIdle
    /\ StreamIdle
    /\ ParserIdle
    /\ AggregatorIdle
    /\ NormalizerIdle
    /\ BrokerIdle
    /\ ConcIdle
    /\ ClientIdle

\* one more trade of the input sequence, no earlier than the one before
TradeArrives(p, q, gap) ==
    /\ policy = "none"
    /\ Len(trades) < MaxTrades
    /\ trades' = Append(trades,
                        Trade(p, q, IF trades = <<>> THEN gap
                                    ELSE Last(trades).timestamp + gap))
    /\ UNCHANGED <<policy, threshold, bars, buckets, bucket, cum, closing,
                   again>>
    /\ UNCHANGED notAggregator

\* mutant of the high: the first price of the bucket
HighPrice_First(ts) == ts[1].price

\* max(t.price for t in trades)
HighPrice(ts) ==
    CHOOSE p \in {ts[k].price : k \in 1..Len(ts)} :
        \A k \in 1..Len(ts) : ts[k].price <= p

\* min(t.price for t in trades)
LowPrice(ts) ==
    CHOOSE p \in {ts[k].price : k \in 1..Len(ts)} :
        \A k \in 1..Len(ts) : p <= ts[k].price

\* sum((t.quantity for t in trades), Decimal(0))
RECURSIVE SumQuantity(_)
SumQuantity(ts) ==
    IF ts = <<>> THEN 0 ELSE Head(ts).quantity + SumQuantity(Tail(ts))

\* mutant of the bar's instants: opening and closing instants exchanged
BarFields_CloseFirst(ts) ==
    [symbol |-> ts[1].symbol,
     open |-> ts[1].price,
     high |-> HighPrice(ts),
     low |-> LowPrice(ts),
     close |-> Last(ts).price,
     volume |-> SumQuantity(ts),
     trade_count |-> Len(ts),
     timestamp |-> Last(ts).timestamp,
     close_time |-> ts[1].timestamp]

\* the fields every _make_*_bar fills the same way
BarFields(ts) ==
    [symbol |-> ts[1].symbol,
     open |-> ts[1].price,
     high |-> HighPrice(ts),
     low |-> LowPrice(ts),
     close |-> Last(ts).price,
     volume |-> SumQuantity(ts),
     trade_count |-> Len(ts),
     timestamp |-> ts[1].timestamp,
     close_time |-> Last(ts).timestamp]

\* mutant of the volume bar: its volume is the number of trades
_make_volume_bar_TradeCount(ts, th) ==
    [BarFields(ts) EXCEPT !.volume = Len(ts)]
        @@ [bar_type |-> "volume", volume_threshold |-> th]

_make_volume_bar(ts, th) ==
    BarFields(ts) @@ [bar_type |-> "volume", volume_threshold |-> th]

_make_tick_bar(ts, th) ==
    BarFields(ts) @@ [bar_type |-> "tick", tick_threshold |-> th]

\* mutant of the dollar bar: its volume is the quote notional
RECURSIVE SumNotional(_)
SumNotional(ts) ==
    IF ts = <<>> THEN 0
    ELSE Head(ts).price * Head(ts).quantity + SumNotional(Tail(ts))

_make_dollar_bar_QuoteVolume(ts, th) ==
    [BarFields(ts) EXCEPT !.volume = SumNotional(ts)]
        @@ [bar_type |-> "dollar", dollar_threshold |-> th]

_make_dollar_bar(ts, th) ==
    BarFields(ts) @@ [bar_type |-> "dollar", dollar_threshold |-> th]

\* mutant of the locals: the bucket and the accumulator outlive the call
FoldStart_Leftover ==
    [bars |-> <<>>, buckets |-> <<>>, closing |-> <<>>,
     bucket |-> bucket, cum |-> cum]

\* the locals of a build_* function before its loop
FoldStart ==
    [bars |-> <<>>, buckets |-> <<>>, closing |-> <<>>,
     bucket |-> <<>>, cum |-> 0]

\* mutant of the closure test: the threshold must be exceeded
VolumeCloses_Strict(c, th) == c > th

\* if cum_volume >= threshold
VolumeCloses(c, th) == c >= th

\* mutant of the closure test: one trade too many
TickCloses_Strict(b, th) == Len(b) > th

\* if len(bucket) >= threshold
TickCloses(b, th) == Len(b) >= th

\* mutant of the closure test: a bar closes only on a positive threshold
DollarCloses_Positive(c, th) == th > 0 /\ c >= th

\* if cum_dollar >= threshold
DollarCloses(c, th) == c >= th

\* for trade in trades: ... of build_volume_bars
RECURSIVE VolumeFold(_, _, _)
VolumeFold(ts, th, st) ==
    IF ts = <<>> THEN st
    ELSE LET trade == Head(ts)
             b == Append(st.bucket, trade)
             c == st.cum + trade.quantity
         IN  IF VolumeCloses(c, th)
             THEN VolumeFold(Tail(ts), th,
                      [bars |-> Append(st.bars, _make_volume_bar(b, th)),
                       buckets |-> Append(st.buckets, b),
                       closing |-> Append(st.closing, c),
                       bucket |-> <<>>,
                       cum |-> 0])
             ELSE VolumeFold(Tail(ts), th,
                      [st EXCEPT !.bucket = b, !.cum = c])

\* for trade in trades: ... of build_tick_bars (it keeps no accumulator;
\* closing records len(bucket))
RECURSIVE TickFold(_, _, _)
TickFold(ts, th, st) ==
    IF ts = <<>> THEN st
    ELSE LET trade == Head(ts)
             b == Append(st.bucket, trade)
         IN  IF TickCloses(b, th)
             THEN TickFold(Tail(ts), th,
                      [bars |-> Append(st.bars, _make_tick_bar(b, th)),
                       buckets |-> Append(st.buckets, b),
                       closing |-> Append(st.closing, Len(b)),
                       bucket |-> <<>>,
                       cum |-> 0])
             ELSE TickFold(Tail(ts), th, [st EXCEPT !.bucket = b])

\* for trade in trades: ... of build_dollar_bars
RECURSIVE DollarFold(_, _, _)
DollarFold(ts, th, st) ==
    IF ts = <<>> THEN st
    ELSE LET trade == Head(ts)
             b == Append(st.bucket, trade)
             c == st.cum + trade.price * trade.quantity
         IN  IF DollarCloses(c, th)
             THEN DollarFold(Tail(ts), th,
                      [bars |-> Append(st.bars, _make_dollar_bar(b, th)),
                       buckets |-> Append(st.buckets, b),
                       closing |-> Append(st.closing, c),
                       bucket |-> <<>>,
                       cum |-> 0])
             ELSE DollarFold(Tail(ts), th,
                      [st EXCEPT !.bucket = b, !.cum = c])

\* mutant of the volume fold: the overshoot is carried into the next bar
RECURSIVE VolumeFold_Carry(_, _, _)
VolumeFold_Carry(ts, th, st) ==
    IF ts = <<>> THEN st
    ELSE LET trade == Head(ts)
             b == Append(st.bucket, trade)
             c == st.cum + trade.quantity
         IN  IF VolumeCloses(c, th)
             THEN VolumeFold_Carry(Tail(ts), th,
                      [bars |-> Append(st.bars, _make_volume_bar(b, th)),
                       buckets |-> Append(st.buckets, b),
                       closing |-> Append(st.closing, c),
                       bucket |-> <<>>,
                       cum |-> c - th])
             ELSE VolumeFold_Carry(Tail(ts), th,
                      [st EXCEPT !.bucket = b, !.cum = c])

build_volume_bars_Carry(ts, th) == VolumeFold_Carry(ts, th, FoldStart)

build_volume_bars(ts, th) == VolumeFold(ts, th, FoldStart)

\* mutant of the output order: each bar is put in front of the list
RECURSIVE Reversed(_)
Reversed(bs) ==
    IF bs = <<>> THEN <<>> ELSE Append(Reversed(Tail(bs)), Head(bs))

build_tick_bars_Reversed(ts, th) ==
    [TickFold(ts, th, FoldStart) EXCEPT !.bars = Reversed(@)]

build_tick_bars(ts, th) == TickFold(ts, th, FoldStart)

\* mutant of the trailing-bucket policy: the open bucket is emitted at the
\* end of the input
build_dollar_bars_Flush(ts, th) ==
    LET r == DollarFold(ts, th, FoldStart)
    IN  IF r.bucket = <<>> THEN r
        ELSE [bars |-> Append(r.bars, _make_dollar_bar(r.bucket, th)),
              buckets |-> Append(r.buckets, r.bucket),
              closing |-> Append(r.closing, r.cum),
              bucket |-> <<>>,
              cum |-> 0]

build_dollar_bars(ts, th) == DollarFold(ts, th, FoldStart)

\* the build_* function of a policy
BuildBars(pol, ts, th) ==
    CASE pol = "volume" -> build_volume_bars(ts, th)
      [] pol = "tick" -> build_tick_bars(ts, th)
      [] pol = "dollar" -> build_dollar_bars(ts, th)

\* a call of build_volume_bars(trades, threshold)
BuildVolumeBars(th) ==
    /\ policy = "none"
    /\ policy' = "volume"
    /\ threshold' = th
    /\ LET r == build_volume_bars(trades, th)
       IN  /\ bars' = r.bars
           /\ buckets' = r.buckets
           /\ closing' = r.closing
           /\ bucket' = r.bucket
           /\ cum' = r.cum
    /\ UNCHANGED <<trades, again>>
    /\ UNCHANGED notAggregator

\* a call of build_tick_bars(trades, threshold)
BuildTickBars(th) ==
    /\ policy = "none"
    /\ policy' = "tick"
    /\ threshold' = th
    /\ LET r == build_tick_bars(trades, th)
       IN  /\ bars' = r.bars
           /\ buckets' = r.buckets
           /\ closing' = r.closing
           /\ bucket' = r.bucket
           /\ cum' = r.cum
    /\ UNCHANGED <<trades, again>>
    /\ UNCHANGED notAggregator

\* a call of build_dollar_bars(trades, threshold)
BuildDollarBars(th) ==
    /\ policy = "none"
    /\ policy' = "dollar"
    /\ threshold' = th
    /\ LET r == build_dollar_bars(trades, th)
       IN  /\ bars' = r.bars
           /\ buckets' = r.buckets
           /\ closing' = r.closing
           /\ bucket' = r.bucket
           /\ cum' = r.cum
    /\ UNCHANGED <<trades, again>>
    /\ UNCHANGED notAggregator

\* a second call of the same build_* function on the same arguments
BuildAgain ==
    /\ policy # "none"
    /\ again = <<>>
    /\ again' = Append(again, BuildBars(policy, trades, threshold).bars)
    /\ UNCHANGED <<trades, policy, threshold, bars, buckets, bucket, cum,
                   closing>>
    /\ UNCHANGED notAggregator

AggNext ==
    \/ \E p \in 1..MaxTradePrice, q \in 1..MaxTradeQty, gap \in 0..MaxGap :
           TradeArrives(p, q, gap)
    \/ \E th \in Thresholds : BuildVolumeBars(th)
    \/ \E th \in Thresholds : BuildTickBars(th)
    \/ \E th \in Thresholds : BuildDollarBars(th)
    \/ BuildAgain

AggSpec == AggInit /\ [][AggNext]_vars

\* ------------------------------------------- a volume-bar scenario
\* build_volume_bars over seven trades of fixed quantities, one tick apart,
\* at any prices
Scenario == [quantities |-> <<1, 1, 1, 2, 1, 1, 1>>, threshold |-> 4]

\* the next trade of the scenario
ScenarioTrade(p) ==
    /\ policy = "none"
    /\ Len(trades) < Len(Scenario.quantities)
    /\ trades' = Append(trades,
                        Trade(p, Scenario.quantities[Len(trades) + 1],
                              Len(trades) + 1))
    /\ UNCHANGED <<policy, threshold, bars, buckets, bucket, cum, closing,
                   again>>
    /\ UNCHANGED notAggregator

ScenarioNext ==
    \/ \E p \in 1..MaxTradePrice : ScenarioTrade(p)
    \/ BuildVolumeBars(Scenario.threshold)

ScenarioSpec == AggInit /\ [][ScenarioNext]_vars

\* ------------------------------------------------------- wire parsers
Parsers == {"_parse_rest_kline", "_parse_ws_kline", "_parse_rest_trade",
            "_parse_ws_trade", "_parse_funding_rate", "_parse_mark_price",
            "_parse_ws_mark_price"}

FullPayload(name) ==
    CASE name = "_parse_rest_kline" -> KlineRow(0, 1)
      [] name = "_parse_ws_kline" -> WsKline(0, TRUE)
      [] name = "_parse_rest_trade" -> RestTrade(1, FALSE)
      [] name = "_parse_ws_trade" -> WsTrade(1, FALSE)
      [] name = "_parse_funding_rate" -> FundingRow(0)
      [] name = "_parse_mark_price" -> RestMarkPrice(0)
      [] name = "_parse_ws_mark_price" -> WsMarkPrice(0, DecText(10000, 8))

\* the payloads a parser may be handed: a JSON array cut short, or a JSON
\* object with some of its keys absent
Payloads(name) ==
    IF name = "_parse_rest_kline"
    THEN {Restrict(FullPayload(name), 0..(n - 1)) : n \in 0..11}
    ELSE {Restrict(FullPayload(name), keys) :
              keys \in SUBSET DOMAIN FullPayload(name)}

ParseInit ==
    /\ PaginatorIdle
    /\ StreamIdle
    /\ AggregatorIdle
    /\ NormalizerIdle
    /\ BrokerIdle
    /\ ConcIdle
    /\ ClientIdle
    /\ parser \in Parsers
    /\ payload \in Payloads(parser)
    /\ parsed = <<>>

ParseRestKline ==
    /\ parser = "_parse_rest_kline"
    /\ parsed = <<>>
    /\ parsed' = _parse_rest_kline(payload)
    /\ UNCHANGED <<parser, payload>>
    /\ UNCHANGED notParser

ParseWsKline ==
    /\ parser = "_parse_ws_kline"
    /\ parsed = <<>>
    /\ parsed' = _parse_ws_kline(payload)
    /\ UNCHANGED <<parser, payload>>
    /\ UNCHANGED notParser

ParseRestTrade ==
    /\ parser = "_parse_rest_trade"
    /\ parsed = <<>>
    /\ parsed' = _parse_rest_trade(payload)
    /\ UNCHANGED <<parser, payload>>
    /\ UNCHANGED notParser

ParseWsTrade ==
    /\ parser = "_parse_ws_trade"
    /\ parsed = <<>>
    /\ parsed' = _parse_ws_trade(payload)
    /\ UNCHANGED <<parser, payload>>
    /\ UNCHANGED notParser

ParseFundingRate ==
    /\ parser = "_parse_funding_rate"
    /\ parsed = <<>>
    /\ parsed' = _parse_funding_rate(payload)
    /\ UNCHANGED <<parser, payload>>
    /\ UNCHANGED notParser

ParseMarkPrice ==
    /\ parser = "_parse_mark_price"
    /\ parsed = <<>>
    /\ parsed' = _parse_mark_price(payload)
    /\ UNCHANGED <<parser, payload>>
    /\ UNCHANGED notParser

ParseWsMarkPrice ==
    /\ parser = "_parse_ws_mark_price"
    /\ parsed = <<>>
    /\ parsed' = _parse_ws_mark_price(payload)
    /\ UNCHANGED <<parser, payload>>
    /\ UNCHANGED notParser

ParseNext ==
    \/ ParseRestKline
    \/ ParseWsKline
    \/ ParseRestTrade
    \/ ParseWsTrade
    \/ ParseFundingRate
    \/ ParseMarkPrice
    \/ ParseWsMarkPrice

ParseSpec == ParseInit /\ [][ParseNext]_vars

\* ---------------------------------------------------------- normalizers
\* Text is a sequence of one-character strings: "0.50" is
\* <<"0", ".", "5", "0">>.
DigitChars == <<"0", "1", "2", "3", "4", "5", "6", "7", "8", "9">>

IsDigit(c) == \E d \in 1..10 : DigitChars[d] = c
DigitValue(c) == (CHOOSE d \in 1..10 : DigitChars[d] = c) - 1

\* position of the first c in t, 0 when there is none
Index(t, c) ==
    IF \E k \in 1..Len(t) : t[k] = c
    THEN CHOOSE k \in 1..Len(t) : t[k] = c /\ \A j \in 1..(k - 1) : t[j] # c
    ELSE 0

\* str(int(digits)): leading zeros go, "000" is "0"
RECURSIVE StripZeros(_)
StripZeros(ds) ==
    IF Len(ds) > 1 /\ Head(ds) = "0" THEN StripZeros(Tail(ds)) ELSE ds

\* int(digits) of an unsigned digit string
RECURSIVE DigitsValue(_)
DigitsValue(ds) ==
    IF ds = <<>> THEN 0
    ELSE DigitsValue(SubSeq(ds, 1, Len(ds) - 1)) * 10 + DigitValue(Last(ds))

\* str(n) of a non-negative integer
RECURSIVE IntText(_)
IntText(n) ==
    IF n < 10 THEN <<DigitChars[n + 1]>>
    ELSE IntText(n \div 10) \o <<DigitChars[(n % 10) + 1]>>

InvalidOperation == [exception |-> "InvalidOperation"]

\* a text without its leading sign
Unsigned(t) == IF t # <<>> /\ t[1] \in {"-", "+"} THEN Tail(t) ELSE t

\* the text before and after position k (all of it, and none, when k = 0)
Before(t, k) == IF k = 0 THEN t ELSE SubSeq(t, 1, k - 1)
After(t, k) == IF k = 0 THEN <<>> ELSE SubSeq(t, k + 1, Len(t))

MantissaParts(neg, mant, has_exp, exp) ==
    [neg |-> neg,
     int |-> Before(mant, Index(mant, ".")),
     frac |-> After(mant, Index(mant, ".")),
     has_exp |-> has_exp,
     exp |-> exp]

BodyParts(neg, body) ==
    MantissaParts(neg, Before(body, Index(body, "E")),
                  Index(body, "E") # 0, After(body, Index(body, "E")))

\* the parts of a decimal text: sign, integer digits, fraction digits and
\* the text after an E
TextParts(t) == BodyParts(t # <<>> /\ t[1] = "-", Unsigned(t))

\* int(m.group('exp') or '0')
ExpValue(x) ==
    IF x = <<>> THEN 0
    ELSE IF x[1] = "-" THEN 0 - DigitsValue(Tail(x))
    ELSE DigitsValue(Unsigned(x))

AllDigits(ds) == \A k \in 1..Len(ds) : IsDigit(ds[k])

\* the parts match the number syntax Decimal accepts
WellFormed(p) ==
    /\ Len(p.int) + Len(p.frac) >= 1
    /\ AllDigits(p.int)
    /\ AllDigits(p.frac)
    /\ p.has_exp => (Unsigned(p.exp) # <<>> /\ AllDigits(Unsigned(p.exp)))

\* the sign, the coefficient digits and the exponent of well-formed parts
DecimalOf(p) ==
    IF ~WellFormed(p) THEN InvalidOperation
    ELSE [sign |-> IF p.neg THEN 1 ELSE 0,
          int |-> StripZeros(p.int \o p.frac),
          exp |-> ExpValue(p.exp) - Len(p.frac)]

\* mutant of the conversion: trailing zeros of the fraction are dropped
RECURSIVE DropTrailingZeros(_)
DropTrailingZeros(ds) ==
    IF ds # <<>> /\ Last(ds) = "0"
    THEN DropTrailingZeros(SubSeq(ds, 1, Len(ds) - 1)) ELSE ds

WithoutTrailingZeros(p) == [p EXCEPT !.frac = DropTrailingZeros(p.frac)]

Decimal_Normalized(t) == DecimalOf(WithoutTrailingZeros(TextParts(t)))

\* Decimal(text): the sign, the coefficient digits and the exponent, exactly
\* as written (no rounding, trailing zeros kept)
Decimal(t) == DecimalOf(TextParts(t))

\* Python None where a datetime may stand
NoDatetime == [none |-> TRUE]

\* datetime.fromtimestamp(ms / 1_000, tz=UTC)
_ms_to_utc(ms) ==
    [second |-> ms \div 1000, microsecond |-> (ms % 1000) * 1000,
     tzinfo |-> "UTC"]

\* the members of KlineInterval; the value "15m" is the pair <<15, "m">>
KlineInterval ==
    {<<1, "m">>, <<3, "m">>, <<5, "m">>, <<15, "m">>, <<30, "m">>,
     <<1, "h">>, <<2, "h">>, <<4, "h">>, <<6, "h">>, <<8, "h">>,
     <<12, "h">>, <<1, "d">>, <<3, "d">>, <<1, "w">>, <<1, "M">>}

\* _INTERVAL_SECONDS of data.normalizers.binance
_INTERVAL_SECONDS ==
    (<<1, "m">> :> 60) @@ (<<3, "m">> :> 180) @@ (<<5, "m">> :> 300)
    @@ (<<15, "m">> :> 900) @@ (<<30, "m">> :> 1800)
    @@ (<<1, "h">> :> 3600) @@ (<<2, "h">> :> 7200)
    @@ (<<4, "h">> :> 14400) @@ (<<6, "h">> :> 21600)
    @@ (<<8, "h">> :> 28800) @@ (<<12, "h">> :> 43200)
    @@ (<<1, "d">> :> 86400) @@ (<<3, "d">> :> 259200)
    @@ (<<1, "w">> :> 604800) @@ (<<1, "M">> :> 2592000)

\* mutant of the futures table: a 31-day month
futures_INTERVAL_SECONDS_Month31 ==
    (<<1, "m">> :> 60) @@ (<<3, "m">> :> 180) @@ (<<5, "m">> :> 300)
    @@ (<<15, "m">> :> 900) @@ (<<30, "m">> :> 1800)
    @@ (<<1, "h">> :> 3600) @@ (<<2, "h">> :> 7200)
    @@ (<<4, "h">> :> 14400) @@ (<<6, "h">> :> 21600)
    @@ (<<8, "h">> :> 28800) @@ (<<12, "h">> :> 43200)
    @@ (<<1, "d">> :> 86400) @@ (<<3, "d">> :> 259200)
    @@ (<<1, "w">> :> 604800) @@ (<<1, "M">> :> 2678400)

\* _INTERVAL_SECONDS of data.normalizers.binance_futures
futures_INTERVAL_SECONDS ==
    (<<1, "m">> :> 60) @@ (<<3, "m">> :> 180) @@ (<<5, "m">> :> 300)
    @@ (<<15, "m">> :> 900) @@ (<<30, "m">> :> 1800)
    @@ (<<1, "h">> :> 3600) @@ (<<2, "h">> :> 7200)
    @@ (<<4, "h">> :> 14400) @@ (<<6, "h">> :> 21600)
    @@ (<<8, "h">> :> 28800) @@ (<<12, "h">> :> 43200)
    @@ (<<1, "d">> :> 86400) @@ (<<3, "d">> :> 259200)
    @@ (<<1, "w">> :> 604800) @@ (<<1, "M">> :> 2592000)

\* the first exception among the converted values if there is one, the
\* value built from them otherwise
Raising(vals, value) ==
    IF \A k \in 1..Len(vals) : ~IsException(vals[k]) THEN value
    ELSE vals[CHOOSE k \in 1..Len(vals) :
                  /\ IsException(vals[k])
                  /\ \A j \in 1..(k - 1) : ~IsException(vals[j])]

to_time_bar(r, symbol, iv) ==
    Raising(<<Decimal(r.open), Decimal(r.high), Decimal(r.low),
              Decimal(r.close), Decimal(r.volume)>>,
            IF iv \notin DOMAIN _INTERVAL_SECONDS THEN KeyError
            ELSE [bar_type |-> "time",
                  symbol |-> symbol,
                  open |-> Decimal(r.open),
                  high |-> Decimal(r.high),
                  low |-> Decimal(r.low),
                  close |-> Decimal(r.close),
                  volume |-> Decimal(r.volume),
                  trade_count |-> r.trade_count,
                  timestamp |-> _ms_to_utc(r.open_time_ms),
                  close_time |-> _ms_to_utc(r.close_time_ms),
                  interval_seconds |-> _INTERVAL_SECONDS[iv]])

to_futures_time_bar(r, symbol, iv) ==
    Raising(<<Decimal(r.open), Decimal(r.high), Decimal(r.low),
              Decimal(r.close), Decimal(r.volume)>>,
            IF iv \notin DOMAIN futures_INTERVAL_SECONDS THEN KeyError
            ELSE [bar_type |-> "time",
                  symbol |-> symbol,
                  open |-> Decimal(r.open),
                  high |-> Decimal(r.high),
                  low |-> Decimal(r.low),
                  close |-> Decimal(r.close),
                  volume |-> Decimal(r.volume),
                  trade_count |-> r.trade_count,
                  timestamp |-> _ms_to_utc(r.open_time_ms),
                  close_time |-> _ms_to_utc(r.close_time_ms),
                  interval_seconds |-> futures_INTERVAL_SECONDS[iv]])

to_trade(r, symbol) ==
    Raising(<<Decimal(r.price), Decimal(r.qty)>>,
            [symbol |-> symbol,
             price |-> Decimal(r.price),
             quantity |-> Decimal(r.qty),
             timestamp |-> _ms_to_utc(r.time),
             is_buyer_maker |-> r.is_buyer_maker])

\* mutant of the historical record: it carries a next funding time
to_funding_rate_WithNext(r) ==
    Raising(<<Decimal(r.funding_rate), Decimal(r.mark_price)>>,
            [symbol |-> r.symbol,
             funding_rate |-> Decimal(r.funding_rate),
             mark_price |-> Decimal(r.mark_price),
             timestamp |-> _ms_to_utc(r.funding_time_ms),
             next_funding_time |-> _ms_to_utc(r.funding_time_ms)])

\* next_funding_time keeps its default, None
to_funding_rate(r) ==
    Raising(<<Decimal(r.funding_rate), Decimal(r.mark_price)>>,
            [symbol |-> r.symbol,
             funding_rate |-> Decimal(r.funding_rate),
             mark_price |-> Decimal(r.mark_price),
             timestamp |-> _ms_to_utc(r.funding_time_ms),
             next_funding_time |-> NoDatetime])

to_current_funding_rate(r) ==
    Raising(<<Decimal(r.last_funding_rate), Decimal(r.mark_price)>>,
            [symbol |-> r.symbol,
             funding_rate |-> Decimal(r.last_funding_rate),
             mark_price |-> Decimal(r.mark_price),
             timestamp |-> _ms_to_utc(r.time_ms),
             next_funding_time |-> _ms_to_utc(r.next_funding_time_ms)])

\* --- the raw records handed to the normalizers
Zeros(n) == [k \in 1..n |-> "0"]

\* a wire decimal: optional minus, integer digits, and after the point
\* a zeros, an optional 1 and b zeros
WireDecimal(neg, int, a, one, b) ==
    (IF neg THEN <<"-">> ELSE <<>>) \o int
        \o (IF a + one + b = 0 THEN <<>>
            ELSE <<".">> \o Zeros(a)
                     \o (IF one = 1 THEN <<"1">> ELSE <<>>) \o Zeros(b))

WireTexts ==
    {WireDecimal(x[1], x[2], x[3], x[4], x[5]) :
         x \in {y \in BOOLEAN \X {<<"0">>, <<"1", "2">>} \X (0..MaxFrac)
                          \X (0..1) \X (0..MaxFrac) :
                    y[3] + y[4] + y[5] <= MaxFrac}}

\* epoch milliseconds on the wire: half-second steps
WireMs == {500 * t : t \in Times}

\* the text of the numeric field in position j, when the field in position
\* slot carries t and the others a text of their own
FieldText(j, slot, t) ==
    IF j = slot THEN t ELSE <<DigitChars[j + 1], ".", "5", "0">>

Normalizers == {"to_time_bar", "to_futures_time_bar", "to_trade",
                "to_funding_rate", "to_current_funding_rate"}

KlineNormalizers == {"to_time_bar", "to_futures_time_bar"}

RawKlines ==
    {[open_time_ms |-> o,
      open |-> FieldText(1, slot, t),
      high |-> FieldText(2, slot, t),
      low |-> FieldText(3, slot, t),
      close |-> FieldText(4, slot, t),
      volume |-> FieldText(5, slot, t),
      close_time_ms |-> o + 999,
      quote_volume |-> FieldText(6, slot, t),
      trade_count |-> 1,
      taker_buy_volume |-> FieldText(7, slot, t),
      taker_buy_quote_volume |-> FieldText(8, slot, t)] :
         o \in WireMs, slot \in 1..5, t \in WireTexts}

RawTrades ==
    {[id |-> 1,
      price |-> FieldText(1, slot, t),
      qty |-> FieldText(2, slot, t),
      quote_qty |-> FieldText(3, slot, t),
      time |-> o,
      is_buyer_maker |-> FALSE] :
         o \in WireMs, slot \in 1..2, t \in WireTexts}

RawFundingRates ==
    {[symbol |-> SYMBOL,
      funding_time_ms |-> o,
      funding_rate |-> FieldText(1, slot, t),
      mark_price |-> FieldText(2, slot, t)] :
         o \in WireMs, slot \in 1..2, t \in WireTexts}

RawMarkPrices ==
    {[symbol |-> SYMBOL,
      mark_price |-> FieldText(2, slot, t),
      index_price |-> FieldText(3, slot, t),
      last_funding_rate |-> FieldText(1, slot, t),
      next_funding_time_ms |-> o + 1500,
      time_ms |-> o] :
         o \in WireMs, slot \in 1..2, t \in WireTexts}

RawInputs(name) ==
    CASE name \in KlineNormalizers -> RawKlines
      [] name = "to_trade" -> RawTrades
      [] name = "to_funding_rate" -> RawFundingRates
      [] name = "to_current_funding_rate" -> RawMarkPrices

NormInit ==
    /\ PaginatorIdle
    /\ StreamIdle
    /\ AggregatorIdle
    /\ ParserIdle
    /\ BrokerIdle
    /\ ConcIdle
    /\ ClientIdle
    /\ normalizer \in Normalizers
    /\ raw \in RawInputs(normalizer)
    /\ interval \in IF normalizer \in KlineNormalizers
                    THEN KlineInterval ELSE {<<>>}
    /\ normalized = <<>>

ToTimeBar ==
    /\ normalizer = "to_time_bar"
    /\ normalized = <<>>
    /\ normalized' = to_time_bar(raw, SYMBOL, interval)
    /\ UNCHANGED <<normalizer, raw, interval>>
    /\ UNCHANGED notNormalizer

ToFuturesTimeBar ==
    /\ normalizer = "to_futures_time_bar"
    /\ normalized = <<>>
    /\ normalized' = to_futures_time_bar(raw, SYMBOL, interval)
    /\ UNCHANGED <<normalizer, raw, interval>>
    /\ UNCHANGED notNormalizer

ToTrade ==
    /\ normalizer = "to_trade"
    /\ normalized = <<>>
    /\ normalized' = to_trade(raw, SYMBOL)
    /\ UNCHANGED <<normalizer, raw, interval>>
    /\ UNCHANGED notNormalizer

ToFundingRate ==
    /\ normalizer = "to_funding_rate"
    /\ normalized = <<>>
    /\ normalized' = to_funding_rate(raw)
    /\ UNCHANGED <<normalizer, raw, interval>>
    /\ UNCHANGED notNormalizer

ToCurrentFundingRate ==
    /\ normalizer = "to_current_funding_rate"
    /\ normalized = <<>>
    /\ normalized' = to_current_funding_rate(raw)
    /\ UNCHANGED <<normalizer, raw, interval>>
    /\ UNCHANGED notNormalizer

NormNext ==
    \/ ToTimeBar
    \/ ToFuturesTimeBar
    \/ ToTrade
    \/ ToFundingRate
    \/ ToCurrentFundingRate

NormSpec == NormInit /\ [][NormNext]_vars

\* -------------------------------------------------------- LighterBroker
\* An optional value is <<>> for Python None and <<v>> for a value v; a
\* dict is the sequence of its items <<key, value>> in insertion order.
Nothing == <<>>
Some(v) == <<v>>

ValueError == [exception |-> "ValueError"]
TypeError == [exception |-> "TypeError"]
Returns(v) == [returned |-> v]

Keys(items) == {items[k][1] : k \in 1..Len(items)}
Get(items, key) == items[CHOOSE k \in 1..Len(items) : items[k][1] = key][2]

\* d[key] = value on a dict: a present key keeps its place
Put(items, key, value) ==
    IF key \in Keys(items)
    THEN [k \in 1..Len(items) |->
              IF items[k][1] = key THEN <<key, value>> ELSE items[k]]
    ELSE Append(items, <<key, value>>)

\* {v: k for k, v in symbol_map.items()}
RECURSIVE Inverted(_)
Inverted(items) ==
    IF items = <<>> THEN <<>>
    ELSE Put(Inverted(SubSeq(items, 1, Len(items) - 1)),
             Last(items)[2], Last(items)[1])

\* the constructor's other arguments
BrokerArgs == [account_index |-> 123, price_decimals |-> 2,
               base_scale |-> 10 ^ 8]

price_scale == 10 ^ BrokerArgs.price_decimals
base_scale == BrokerArgs.base_scale

NIL_TRIGGER_PRICE == 0

Symbols == {"BTC-USDC", "ETH-USDC", "SOL-USDC"}
Listed == {"BTC-USDC", "ETH-USDC"}
Markets == 0..1

\* the symbol_map arguments: dicts over the listed symbols
SymbolMaps ==
    {<<>>}
    \cup {<<<<s, m>>>> : s \in Listed, m \in Markets}
    \cup {<<<<x[1], x[3]>>, <<x[2], x[4]>>>> :
              x \in {y \in Listed \X Listed \X Markets \X Markets :
                         y[1] # y[2]}}

\* mutant of the lookup: an unknown symbol resolves to market 0
_resolve_Default(symbol) ==
    IF symbol \in Keys(symbol_map) THEN Returns(Get(symbol_map, symbol))
    ELSE Returns(0)

\* self._symbol_map[symbol], KeyError turned into ValueError
_resolve(symbol) ==
    IF symbol \in Keys(symbol_map) THEN Returns(Get(symbol_map, symbol))
    ELSE ValueError

_ORDER_TYPE ==
    [t \in {"limit", "market", "stop-loss", "stop-loss-limit",
            "take-profit", "take-profit-limit"} |->
         CASE t = "limit" -> "ORDER_TYPE_LIMIT"
           [] t = "market" -> "ORDER_TYPE_MARKET"
           [] t = "stop-loss" -> "ORDER_TYPE_STOP_LOSS"
           [] t = "stop-loss-limit" -> "ORDER_TYPE_STOP_LOSS_LIMIT"
           [] t = "take-profit" -> "ORDER_TYPE_TAKE_PROFIT"
           [] t = "take-profit-limit" -> "ORDER_TYPE_TAKE_PROFIT_LIMIT"]

_TIF ==
    [t \in {"immediate-or-cancel", "good-till-time", "post-only"} |->
         CASE t = "immediate-or-cancel" ->
                  "ORDER_TIME_IN_FORCE_IMMEDIATE_OR_CANCEL"
           [] t = "good-till-time" -> "ORDER_TIME_IN_FORCE_GOOD_TILL_TIME"
           [] t = "post-only" -> "ORDER_TIME_IN_FORCE_POST_ONLY"]

RECURSIVE Pow10(_)
Pow10(n) == IF n = 0 THEN 1 ELSE 10 * Pow10(n - 1)

\* int(value * scale) of a non-negative Decimal: the product, truncated
_to_int(value, scale) ==
    IF value.exp >= 0
    THEN DigitsValue(value.int) * scale * Pow10(value.exp)
    ELSE (DigitsValue(value.int) * scale) \div Pow10(0 - value.exp)

\* int(text): an optional sign and digits, ValueError otherwise
IntOf(t) ==
    LET ds == IF t # <<>> /\ t[1] \in {"-", "+"} THEN Tail(t) ELSE t
    IN  IF ds # <<>> /\ \A k \in 1..Len(ds) : IsDigit(ds[k])
        THEN Returns(IF t[1] = "-" THEN 0 - DigitsValue(ds)
                     ELSE DigitsValue(ds))
        ELSE ValueError

OrderResult(order_id, order, err) ==
    [order_id |-> order_id, order |-> order, error |-> err]

\* place_order(order) when the exchange answers create_order with reply
place_order(order, reply) ==
    IF order.cls # "PerpOrder"
    THEN [result |-> TypeError, sent |-> <<>>, auth |-> 0]
    ELSE IF IsException(_resolve(order.symbol))
    THEN [result |-> _resolve(order.symbol), sent |-> <<>>, auth |-> 0]
    ELSE IF /\ order.client_order_id \notin {Nothing, Some(<<>>)}
            /\ IsException(IntOf(order.client_order_id[1]))
    THEN [result |-> IntOf(order.client_order_id[1]), sent |-> <<>>,
          auth |-> 0]
    ELSE LET market_index == _resolve(order.symbol).returned
             client_idx ==
                 IF order.client_order_id \in {Nothing, Some(<<>>)} THEN 0
                 ELSE IntOf(order.client_order_id[1]).returned
             trigger ==
                 IF order.trigger_price # Nothing
                 THEN _to_int(order.trigger_price[1], price_scale)
                 ELSE NIL_TRIGGER_PRICE
             request ==
                 [api |-> "create_order",
                  market_index |-> market_index,
                  client_order_index |-> client_idx,
                  base_amount |-> _to_int(order.quantity, base_scale),
                  price |-> _to_int(order.price, price_scale),
                  is_ask |-> order.side = "sell",
                  order_type |-> _ORDER_TYPE[order.order_type],
                  time_in_force |-> _TIF[order.time_in_force],
                  reduce_only |-> order.reduce_only,
                  trigger_price |-> trigger,
                  order_expiry |-> order.order_expiry]
         IN  [result |->
                  Returns(IF reply.err # Nothing
                          THEN OrderResult(Nothing, Some(order), reply.err)
                          ELSE OrderResult(
                                   IF reply.resp # Nothing
                                   THEN Some(reply.resp[1].tx_hash)
                                   ELSE Nothing,
                                   Some(order), Nothing)),
              sent |-> <<request>>,
              auth |-> 0]

\* the error text of a malformed order id
InvalidOrderId == "Invalid order_id format"

\* mutant of the parse: a text that is no pair of integers stands for
\* market 0, order 0
ParseOrderId_Default(order_id) ==
    IF \/ Index(order_id, ":") = 0
       \/ IsException(IntOf(Before(order_id, Index(order_id, ":"))))
       \/ IsException(IntOf(After(order_id, Index(order_id, ":"))))
    THEN Returns(<<0, 0>>)
    ELSE Returns(<<IntOf(Before(order_id, Index(order_id, ":"))).returned,
                   IntOf(After(order_id, Index(order_id, ":"))).returned>>)

\* market_str, index_str = order_id.split(":", 1);
\* market_index, order_index = int(market_str), int(index_str)
\* (a text without ":" fails to unpack: ValueError as well)
ParseOrderId(order_id) ==
    IF Index(order_id, ":") = 0 THEN ValueError
    ELSE IF IsException(IntOf(Before(order_id, Index(order_id, ":"))))
    THEN ValueError
    ELSE IF IsException(IntOf(After(order_id, Index(order_id, ":"))))
    THEN ValueError
    ELSE Returns(<<IntOf(Before(order_id, Index(order_id, ":"))).returned,
                   IntOf(After(order_id, Index(order_id, ":"))).returned>>)

\* what cancel_order and cancel_all_orders return for the signer's reply
Cancelled(reply) ==
    IF reply.err # Nothing
    THEN OrderResult(Nothing, Nothing, reply.err)
    ELSE OrderResult(IF reply.resp # Nothing
                     THEN Some(reply.resp[1].tx_hash) ELSE Nothing,
                     Nothing, Nothing)

\* cancel_order(order_id) when the signer answers cancel_order with reply
cancel_order(order_id, reply) ==
    IF IsException(ParseOrderId(order_id))
    THEN [result |-> Returns(OrderResult(Nothing, Nothing,
                                         Some(InvalidOrderId))),
          sent |-> <<>>, auth |-> 0]
    ELSE [result |-> Returns(Cancelled(reply)),
          sent |-> <<[api |-> "cancel_order",
                      market_index |-> ParseOrderId(order_id).returned[1],
                      order_index |-> ParseOrderId(order_id).returned[2]]>>,
          auth |-> 0]

\* mutant of cancel_all_orders: the transaction hash is kept on an error
cancel_all_orders_KeepId(symbol, reply, now) ==
    [result |-> Returns(OrderResult(IF reply.resp # Nothing
                                    THEN Some(reply.resp[1].tx_hash)
                                    ELSE Nothing,
                                    Nothing, reply.err)),
     sent |-> <<[api |-> "cancel_all_orders",
                 time_in_force |-> "CANCEL_ALL_TIF_IMMEDIATE",
                 timestamp_ms |-> now * 1000]>>,
     auth |-> 0]

\* cancel_all_orders(symbol) at the clock reading now (seconds) when the
\* signer answers with reply; the symbol is ignored
cancel_all_orders(symbol, reply, now) ==
    [result |-> Returns(Cancelled(reply)),
     sent |-> <<[api |-> "cancel_all_orders",
                 time_in_force |-> "CANCEL_ALL_TIF_IMMEDIATE",
                 timestamp_ms |-> now * 1000]>>,
     auth |-> 0]

\* OrderResult.ok
ok(r) == r.error = Nothing

_LIGHTER_TYPE_MAP ==
    [t \in {"limit", "market", "stop-loss", "stop-loss-limit",
            "take-profit", "take-profit-limit"} |-> t]

_LIGHTER_TIF_MAP ==
    [t \in {"good-till-time", "immediate-or-cancel", "post-only"} |-> t]

\* mutant of the id: the order index comes first
OrderIdText_Swapped(market_index, order_index) ==
    IntText(order_index) \o <<":">> \o IntText(market_index)

\* f"{raw.market_index}:{raw.order_index}"
OrderIdText(market_index, order_index) ==
    IntText(market_index) \o <<":">> \o IntText(order_index)

\* Decimal is falsy when zero
IsZero(d) == d.int = <<"0">>

_to_perp_order(r, symbol) ==
    LET trigger_raw == Decimal(r.trigger_price)
    IN  [cls |-> "PerpOrder",
         symbol |-> symbol,
         side |-> IF r.is_ask THEN "sell" ELSE "buy",
         order_type |-> IF r.type \in DOMAIN _LIGHTER_TYPE_MAP
                        THEN _LIGHTER_TYPE_MAP[r.type] ELSE "limit",
         quantity |-> Decimal(r.initial_base_amount),
         price |-> Decimal(r.price),
         time_in_force |-> IF r.time_in_force \in DOMAIN _LIGHTER_TIF_MAP
                           THEN _LIGHTER_TIF_MAP[r.time_in_force]
                           ELSE "good-till-time",
         client_order_id |-> Some(OrderIdText(r.market_index, r.order_index)),
         reduce_only |-> r.reduce_only,
         trigger_price |-> IF IsZero(trigger_raw) THEN Nothing
                           ELSE Some(trigger_raw),
         order_expiry |-> r.order_expiry]

\* an order as the exchange reports it
LighterOrder(market_index, order_index) ==
    [market_index |-> market_index,
     order_index |-> order_index,
     is_ask |-> FALSE,
     type |-> "limit",
     initial_base_amount |-> <<"0", ".", "1">>,
     price |-> <<"2", "5", "0", "0", ".", "5", "0">>,
     time_in_force |-> "good-till-time",
     reduce_only |-> FALSE,
     trigger_price |-> <<"0">>,
     order_expiry |-> 0 - 1]

\* the (sym, market_index) pairs open_orders queries
OpenOrdersMarkets(symbol) ==
    IF symbol # Nothing
    THEN <<<<symbol[1], _resolve(symbol[1]).returned>>>>
    ELSE symbol_map

RECURSIVE OpenOrdersLoop(_, _, _)
OpenOrdersLoop(markets, active, st) ==
    IF markets = <<>> THEN st
    ELSE LET sym == Head(markets)[1]
             market_index == Head(markets)[2]
             request == [api |-> "account_active_orders",
                         account_index |-> BrokerArgs.account_index,
                         market_index |-> market_index]
             found == [k \in 1..Len(active[market_index]) |->
                           _to_perp_order(active[market_index][k], sym)]
         IN  OpenOrdersLoop(Tail(markets), active,
                            [orders |-> st.orders \o found,
                             sent |-> Append(st.sent, request)])

\* the raw orders the loop of open_orders receives, in order
RECURSIVE RawOrders(_, _)
RawOrders(markets, active) ==
    IF markets = <<>> THEN <<>>
    ELSE active[Head(markets)[2]] \o RawOrders(Tail(markets), active)

\* what the caller holds after open_orders: each returned order's
\* client_order_id with the indices of the raw order it was made from
Handed(orders, raws) ==
    {[id |-> orders[k].client_order_id[1],
      market_index |-> raws[k].market_index,
      order_index |-> raws[k].order_index] : k \in 1..Len(orders)}

\* open_orders(symbol) when the exchange holds the orders active[m] in
\* market m
open_orders(symbol, active) ==
    IF symbol # Nothing /\ IsException(_resolve(symbol[1]))
    THEN [result |-> _resolve(symbol[1]), sent |-> <<>>, auth |-> 1]
    ELSE LET st == OpenOrdersLoop(OpenOrdersMarkets(symbol), active,
                                  [orders |-> <<>>, sent |-> <<>>])
         IN  [result |-> Returns(st.orders), sent |-> st.sent, auth |-> 1]

\* Decimal(raw.position) * raw.sign
SignedQuantity(d, sign) ==
    IF sign < 0 THEN [d EXCEPT !.sign = 1 - d.sign] ELSE d

_to_perp_position(r, symbol) ==
    [symbol |-> symbol,
     quantity |-> SignedQuantity(Decimal(r.position), r.sign),
     avg_entry_price |-> Decimal(r.avg_entry_price),
     unrealized_pnl |-> Decimal(r.unrealized_pnl),
     realized_pnl |-> Decimal(r.realized_pnl),
     liquidation_price |-> IF r.liquidation_price # <<>>
                           THEN Some(Decimal(r.liquidation_price))
                           ELSE Nothing,
     funding_paid |-> IF r.total_funding_paid_out # <<>>
                      THEN Some(Decimal(r.total_funding_paid_out))
                      ELSE Nothing,
     mark_price |-> Nothing]

\* a position as the exchange reports it
LighterPosition(market_id) ==
    [market_id |-> market_id,
     position |-> <<"0", ".", "5">>,
     sign |-> 0 - 1,
     avg_entry_price |-> <<"2", "5", "0", "0", ".", "5", "0">>,
     unrealized_pnl |-> <<"1", ".", "2", "5">>,
     realized_pnl |-> <<"0">>,
     liquidation_price |-> <<>>,
     total_funding_paid_out |-> <<"0", ".", "0", "1">>]

\* the first position in the market, Nothing when there is none
FirstInMarket(positions, market_index) ==
    LET hits == {k \in 1..Len(positions) :
                     positions[k].market_id = market_index}
    IN  IF hits = {} THEN Nothing
        ELSE Some(positions[CHOOSE k \in hits : \A j \in hits : k <= j])

\* position(symbol) when the exchange answers with these accounts
position(symbol, accounts) ==
    IF IsException(_resolve(symbol))
    THEN [result |-> _resolve(symbol), sent |-> <<>>, auth |-> 0]
    ELSE LET market_index == _resolve(symbol).returned
             request == [api |-> "account", by |-> "index",
                         value |-> IntText(BrokerArgs.account_index)]
             hit == IF accounts = <<>> THEN Nothing
                    ELSE FirstInMarket(accounts[1].positions, market_index)
         IN  [result |-> Returns(IF hit = Nothing THEN Nothing
                                 ELSE Some(_to_perp_position(hit[1],
                                                             symbol))),
              sent |-> <<request>>,
              auth |-> 0]

\* best_bid(symbol) / best_ask(symbol) when the exchange answers with the
\* order book ob
best_bid(symbol, ob) ==
    IF IsException(_resolve(symbol))
    THEN [result |-> _resolve(symbol), sent |-> <<>>, auth |-> 0]
    ELSE [result |-> IF ob.bids = <<>> THEN IndexError
                     ELSE Returns(Decimal(ob.bids[1].price)),
          sent |-> <<[api |-> "order_book_orders",
                      market_index |-> _resolve(symbol).returned,
                      limit |-> 1]>>,
          auth |-> 0]

best_ask(symbol, ob) ==
    IF IsException(_resolve(symbol))
    THEN [result |-> _resolve(symbol), sent |-> <<>>, auth |-> 0]
    ELSE [result |-> IF ob.asks = <<>> THEN IndexError
                     ELSE Returns(Decimal(ob.asks[1].price)),
          sent |-> <<[api |-> "order_book_orders",
                      market_index |-> _resolve(symbol).returned,
                      limit |-> 1]>>,
          auth |-> 0]

\* --- the calls the model makes
Orders ==
    {[cls |-> x[1],
      symbol |-> x[2],
      side |-> x[3],
      order_type |-> "limit",
      quantity |-> Decimal(<<"0", ".", "1">>),
      price |-> Decimal(<<"2", "5", "0", "0", ".", "5", "0">>),
      time_in_force |-> "good-till-time",
      client_order_id |-> x[4],
      reduce_only |-> FALSE,
      trigger_price |-> Nothing,
      order_expiry |-> 0 - 1] :
         x \in {"PerpOrder", "EquityOrder"} \X Symbols \X {"buy", "sell"}
                   \X {Nothing, Some(<<"7">>),
                       Some(<<"1", ":", "4", "2">>)}}

SignerReplies ==
    {[resp |-> Some([tx_hash |-> "0x01"]), err |-> Nothing],
     [resp |-> Nothing, err |-> Nothing],
     [resp |-> Nothing, err |-> Some("rejected")],
     [resp |-> Some([tx_hash |-> "0x01"]), err |-> Some("rejected")]}

\* the order ids cancel_order is called with: those open_orders builds,
\* signed ones, and texts that are no pair of integers
OrderIds ==
    {OrderIdText(m, 42) : m \in Markets}
    \cup {<<"-", "1", ":", "+", "5">>,
          <<>>, <<"4", "2">>, <<"1", ":">>, <<":", "4">>,
          <<"a", ":", "1">>, <<"1", ":", "x">>,
          <<"1", ":", "2", ":", "3">>}

ActiveOrders ==
    {[m \in Markets |-> IF n[m] = 0 THEN <<>> ELSE <<LighterOrder(m, 42)>>] :
         n \in [Markets -> 0..1]}

AccountReplies ==
    {<<>>, <<[positions |-> <<>>]>>}
    \cup {<<[positions |-> <<LighterPosition(m)>>]>> : m \in Markets}

OrderBooks ==
    [bids : {<<>>, <<[price |-> <<"2", "5", "0", "0", ".", "5", "0">>]>>},
     asks : {<<>>, <<[price |-> <<"2", "5", "0", "1", ".", "0", "0">>]>>}]

BrokerInit ==
    /\ PaginatorIdle
    /\ StreamIdle
    /\ AggregatorIdle
    /\ ParserIdle
    /\ NormalizerIdle
    /\ ConcIdle
    /\ ClientIdle
    /\ symbol_map \in SymbolMaps
    /\ index_map = Inverted(symbol_map)
    /\ op = <<>>
    /\ result = <<>>
    /\ sent = <<>>
    /\ auth = 0
    /\ held = {}

PlaceOrder(order, reply) ==
    /\ op' = [name |-> "place_order", symbol |-> Some(order.symbol),
              order |-> Some(order), order_id |-> Nothing]
    /\ LET r == place_order(order, reply)
       IN  /\ result' = r.result
           /\ sent' = r.sent
           /\ auth' = r.auth
    /\ UNCHANGED <<symbol_map, index_map, held>>
    /\ UNCHANGED notBroker

OpenOrders(symbol, active) ==
    /\ op' = [name |-> "open_orders", symbol |-> symbol, order |-> Nothing,
              order_id |-> Nothing]
    /\ LET r == open_orders(symbol, active)
       IN  /\ result' = r.result
           /\ sent' = r.sent
           /\ auth' = r.auth
           /\ held' = IF IsException(r.result) THEN held
                      ELSE held \cup Handed(r.result.returned,
                                            RawOrders(OpenOrdersMarkets(symbol),
                                                      active))
    /\ UNCHANGED <<symbol_map, index_map>>
    /\ UNCHANGED notBroker

Position(symbol, accounts) ==
    /\ op' = [name |-> "position", symbol |-> Some(symbol),
              order |-> Nothing, order_id |-> Nothing]
    /\ LET r == position(symbol, accounts)
       IN  /\ result' = r.result
           /\ sent' = r.sent
           /\ auth' = r.auth
    /\ UNCHANGED <<symbol_map, index_map, held>>
    /\ UNCHANGED notBroker

BestBid(symbol, ob) ==
    /\ op' = [name |-> "best_bid", symbol |-> Some(symbol),
              order |-> Nothing, order_id |-> Nothing]
    /\ LET r == best_bid(symbol, ob)
       IN  /\ result' = r.result
           /\ sent' = r.sent
           /\ auth' = r.auth
    /\ UNCHANGED <<symbol_map, index_map, held>>
    /\ UNCHANGED notBroker

BestAsk(symbol, ob) ==
    /\ op' = [name |-> "best_ask", symbol |-> Some(symbol),
              order |-> Nothing, order_id |-> Nothing]
    /\ LET r == best_ask(symbol, ob)
       IN  /\ result' = r.result
           /\ sent' = r.sent
           /\ auth' = r.auth
    /\ UNCHANGED <<symbol_map, index_map, held>>
    /\ UNCHANGED notBroker

CancelOrder(order_id, reply) ==
    /\ op' = [name |-> "cancel_order", symbol |-> Nothing,
              order |-> Nothing, order_id |-> Some(order_id)]
    /\ LET r == cancel_order(order_id, reply)
       IN  /\ result' = r.result
           /\ sent' = r.sent
           /\ auth' = r.auth
    /\ UNCHANGED <<symbol_map, index_map, held>>
    /\ UNCHANGED notBroker

CancelAllOrders(symbol, reply, now) ==
    /\ op' = [name |-> "cancel_all_orders", symbol |-> symbol,
              order |-> Nothing, order_id |-> Nothing]
    /\ LET r == cancel_all_orders(symbol, reply, now)
       IN  /\ result' = r.result
           /\ sent' = r.sent
           /\ auth' = r.auth
    /\ UNCHANGED <<symbol_map, index_map, held>>
    /\ UNCHANGED notBroker

BrokerNext ==
    \/ \E order \in Orders, reply \in SignerReplies : PlaceOrder(order, reply)
    \/ \E symbol \in {Nothing} \cup {Some(x) : x \in Symbols},
          active \in ActiveOrders : OpenOrders(symbol, active)
    \/ \E symbol \in Symbols, accounts \in AccountReplies :
           Position(symbol, accounts)
    \/ \E symbol \in Symbols, ob \in OrderBooks : BestBid(symbol, ob)
    \/ \E symbol \in Symbols, ob \in OrderBooks : BestAsk(symbol, ob)
    \/ \E order_id \in OrderIds, reply \in SignerReplies :
           CancelOrder(order_id, reply)
    \/ \E symbol \in {Nothing} \cup {Some(x) : x \in Symbols},
          reply \in SignerReplies, now \in 0..1 :
           CancelAllOrders(symbol, reply, now)

BrokerSpec == BrokerInit /\ [][BrokerNext]_vars

\* ------------------------------------------- concurrent invocations
\* Two generator objects of one connector, advanced by one event loop: each
\* has its own frame (arguments and local variables) and is suspended at
\* its awaited GET and at each yield; they share the connector's HTTP
\* client, over which every request is answered on its own.
Invocations == 1..2

\* the paginators each connector class has
ConnectorMethods ==
    [BinanceConnector |-> {"spot_klines"},
     BinanceFuturesConnector |-> {"futures_klines", "funding_rates"}]

\* what the exchange holds: a kline and a settlement at every tick
ExchangeKlines == [k \in 1..MaxRecords |-> KlineRow(k - 1, k - 1)]
ExchangeFundings == [k \in 1..MaxRecords |-> FundingRow(k - 1)]

\* the endpoints over that dataset
ServeKlines(params) ==
    Take(SelectSeq(ExchangeKlines,
                   LAMBDA row : /\ params.startTime <= row[0]
                                /\ row[0] <= params.endTime),
         params.limit)

ServeFundings(params) ==
    Take(SelectSeq(ExchangeFundings,
                   LAMBDA row : /\ params.startTime <= row.fundingTime
                                /\ \/ params.endTime = None
                                   \/ row.fundingTime <= params.endTime),
         params.limit)

Serve(m, params) ==
    IF m \in KlineMethods THEN ServeKlines(params) ELSE ServeFundings(params)

\* the frame of a generator that has not run yet
Frame(m, s, e) ==
    [method |-> m, start_ms |-> s, end_ms |-> e, pc |-> "setup",
     cursor |-> 0, params |-> <<>>, batch |-> <<>>, i |-> 1,
     emitted |-> <<>>]

\* the arguments the invocations are made with
ConcStarts == {0, 1}
ConcEnds(m) ==
    IF m \in KlineMethods THEN {MaxRecords - 2, MaxRecords}
    ELSE {None, MaxRecords - 2}

Frames(c) ==
    [Invocations -> UNION {{Frame(m, s, e) : s \in ConcStarts,
                                             e \in ConcEnds(m)} :
                               m \in ConnectorMethods[c]}]

\* mutant of the cursor assignment: the cursor is kept on the connector,
\* one for all its invocations
SetCursor_Shared(fr, k, c) ==
    [j \in DOMAIN fr |-> [fr[j] EXCEPT !.cursor = c]]

\* cursor = ...: the assignment binds the local of the running generator
SetCursor(fr, k, c) == [fr EXCEPT ![k].cursor = c]

ConcWhile(m, c, e) ==
    IF m \in KlineMethods THEN KlinesWhile(c, e) ELSE FundingWhile(c, e)

ConcParams(m, c, e) ==
    [startTime |-> c, endTime |-> e,
     limit |-> IF m \in KlineMethods THEN KLINE_PAGE ELSE FUNDING_PAGE]

ConcParse(m, row) ==
    IF m \in KlineMethods THEN _parse_rest_kline(row)
    ELSE _parse_funding_rate(row)

ConcLastPage(m, b) ==
    IF m \in KlineMethods THEN KlinesLastPage(b) ELSE FundingLastPage(b)

ConcNextCursor(m, b) ==
    IF m \in KlineMethods THEN KlinesNextCursor(b) ELSE FundingNextCursor(b)

ConcInit ==
    /\ PaginatorIdle
    /\ StreamIdle
    /\ AggregatorIdle
    /\ ParserIdle
    /\ NormalizerIdle
    /\ BrokerIdle
    /\ connector \in DOMAIN ConnectorMethods
    /\ frames \in Frames(connector)
    /\ wire = <<>>
    /\ ClientIdle

\* cursor = start_ms
ConcStart(k) ==
    /\ frames[k].pc = "setup"
    /\ frames' = SetCursor([frames EXCEPT ![k].pc = "while"], k,
                           frames[k].start_ms)
    /\ UNCHANGED <<connector, wire>>
    /\ UNCHANGED notConc

\* response = await self._client.get(..., params=...)
ConcGet(k) ==
    /\ frames[k].pc = "while"
    /\ ConcWhile(frames[k].method, frames[k].cursor, frames[k].end_ms)
    /\ frames' = [frames EXCEPT
                      ![k].params = ConcParams(frames[k].method,
                                               frames[k].cursor,
                                               frames[k].end_ms),
                      ![k].pc = "await"]
    /\ wire' = Append(wire, [by |-> k,
                             params |-> ConcParams(frames[k].method,
                                                   frames[k].cursor,
                                                   frames[k].end_ms)])
    /\ UNCHANGED connector
    /\ UNCHANGED notConc

\* the while test fails: the generator returns
ConcReturn(k) ==
    /\ frames[k].pc = "while"
    /\ ~ConcWhile(frames[k].method, frames[k].cursor, frames[k].end_ms)
    /\ frames' = [frames EXCEPT ![k].pc = "done"]
    /\ UNCHANGED <<connector, wire>>
    /\ UNCHANGED notConc

\* batch = response.json()
ConcResponse(k) ==
    /\ frames[k].pc = "await"
    /\ frames' = [frames EXCEPT
                      ![k].batch = Serve(frames[k].method, frames[k].params),
                      ![k].i = 1,
                      ![k].pc = "for"]
    /\ UNCHANGED <<connector, wire>>
    /\ UNCHANGED notConc

\* for row in batch: yield _parse_*(row)
ConcYield(k) ==
    /\ frames[k].pc = "for"
    /\ ForHasNext(frames[k].batch, frames[k].i)
    /\ frames' = [frames EXCEPT
                      ![k].emitted =
                          Append(@, ConcParse(frames[k].method,
                                              frames[k].batch[frames[k].i])),
                      ![k].i = @ + 1]
    /\ UNCHANGED <<connector, wire>>
    /\ UNCHANGED notConc

\* if len(batch) < page: break
ConcBreak(k) ==
    /\ frames[k].pc = "for"
    /\ ~ForHasNext(frames[k].batch, frames[k].i)
    /\ ConcLastPage(frames[k].method, frames[k].batch)
    /\ frames' = [frames EXCEPT ![k].pc = "done"]
    /\ UNCHANGED <<connector, wire>>
    /\ UNCHANGED notConc

\* cursor = int(batch[-1][...]) + 1
ConcAdvance(k) ==
    /\ frames[k].pc = "for"
    /\ ~ForHasNext(frames[k].batch, frames[k].i)
    /\ ~ConcLastPage(frames[k].method, frames[k].batch)
    /\ frames' = SetCursor([frames EXCEPT ![k].pc = "while"], k,
                           ConcNextCursor(frames[k].method, frames[k].batch))
    /\ UNCHANGED <<connector, wire>>
    /\ UNCHANGED notConc

ConcNext ==
    \/ \E k \in Invocations : ConcStart(k)
    \/ \E k \in Invocations : ConcGet(k)
    \/ \E k \in Invocations : ConcReturn(k)
    \/ \E k \in Invocations : ConcResponse(k)
    \/ \E k \in Invocations : ConcYield(k)
    \/ \E k \in Invocations : ConcBreak(k)
    \/ \E k \in Invocations : ConcAdvance(k)

ConcSpec == ConcInit /\ [][ConcNext]_vars

\* ---------------------------------------------------------- clients
\* time_bars and funding_rates iterate over the connector's paginator with
\* async for, convert each raw record and append it to a local list, and
\* return the list when the paginator is exhausted.  The paginator is the
\* environment here: it yields a raw record, ends, or raises.
ClientMethods ==
    {"BinanceClient.time_bars", "BinanceFuturesClient.time_bars",
     "BinanceFuturesClient.funding_rates"}

ClientSymbols == {SYMBOL, "ETHUSDT"}

\* the calls the model makes
ClientCalls ==
    {[method |-> m, symbol |-> sym, interval |-> iv] :
         m \in {"BinanceClient.time_bars", "BinanceFuturesClient.time_bars"},
         sym \in ClientSymbols, iv \in KlineInterval}
    \cup {[method |-> "BinanceFuturesClient.funding_rates", symbol |-> sym,
           interval |-> <<>>] : sym \in ClientSymbols}

\* the decimal texts of the records the paginator yields; the last is no
\* number
ClientTexts ==
    {<<"1", ".", "5", "0">>,
     <<"0", ".", "0", "0", "0", "1", "0", "0", "0", "0">>,
     <<"a", "b", "c">>}

\* the n-th raw record the paginator yields, with t in its first decimal
\* field
ClientKline(n, t) ==
    [open_time_ms |-> 1000 * n,
     open |-> t,
     high |-> FieldText(2, 1, t),
     low |-> FieldText(3, 1, t),
     close |-> FieldText(4, 1, t),
     volume |-> FieldText(5, 1, t),
     close_time_ms |-> 1000 * n + 999,
     quote_volume |-> FieldText(6, 1, t),
     trade_count |-> 1,
     taker_buy_volume |-> FieldText(7, 1, t),
     taker_buy_quote_volume |-> FieldText(8, 1, t)]

ClientFunding(n, sym, t) ==
    [symbol |-> sym,
     funding_time_ms |-> 1000 * n,
     funding_rate |-> t,
     mark_price |-> FieldText(2, 1, t)]

ClientInit ==
    /\ PaginatorIdle
    /\ StreamIdle
    /\ AggregatorIdle
    /\ ParserIdle
    /\ NormalizerIdle
    /\ BrokerIdle
    /\ ConcIdle
    /\ call \in ClientCalls
    /\ feeder = "running"
    /\ received = <<>>
    /\ collected = <<>>
    /\ outcome = <<>>

\* mutant of the append: the record is put in front of the list
ListAppend_Front(list, v) == <<v>> \o list

\* bars.append(...) / rates.append(...)
ListAppend(list, v) == Append(list, v)

\* BinanceClient.time_bars: async for raw in fetch_klines(...):
\*     bars.append(to_time_bar(raw, symbol=symbol, interval=interval))
TimeBarsReceives(t) ==
    /\ call.method = "BinanceClient.time_bars"
    /\ feeder = "running"
    /\ outcome = <<>>
    /\ Len(received) < MaxRecords
    /\ received' = Append(received, ClientKline(Len(received), t))
    /\ IF IsException(to_time_bar(ClientKline(Len(received), t),
                                  call.symbol, call.interval))
       THEN /\ outcome' = to_time_bar(ClientKline(Len(received), t),
                                      call.symbol, call.interval)
            /\ collected' = collected
       ELSE /\ collected' =
                ListAppend(collected,
                           to_time_bar(ClientKline(Len(received), t),
                                       call.symbol, call.interval))
            /\ outcome' = outcome
    /\ UNCHANGED <<call, feeder>>
    /\ UNCHANGED notClient

\* BinanceFuturesClient.time_bars: async for raw in fetch_klines(...):
\*     bars.append(to_futures_time_bar(raw, symbol=symbol,
\*                                     interval=interval))
FuturesTimeBarsReceives(t) ==
    /\ call.method = "BinanceFuturesClient.time_bars"
    /\ feeder = "running"
    /\ outcome = <<>>
    /\ Len(received) < MaxRecords
    /\ received' = Append(received, ClientKline(Len(received), t))
    /\ IF IsException(to_futures_time_bar(ClientKline(Len(received), t),
                                          call.symbol, call.interval))
       THEN /\ outcome' = to_futures_time_bar(ClientKline(Len(received), t),
                                              call.symbol, call.interval)
            /\ collected' = collected
       ELSE /\ collected' =
                ListAppend(collected,
                           to_futures_time_bar(ClientKline(Len(received), t),
                                               call.symbol, call.interval))
            /\ outcome' = outcome
    /\ UNCHANGED <<call, feeder>>
    /\ UNCHANGED notClient

\* BinanceFuturesClient.funding_rates:
\* async for raw in fetch_funding_rates(...):
\*     rates.append(to_funding_rate(raw))
FundingRatesReceives(t) ==
    /\ call.method = "BinanceFuturesClient.funding_rates"
    /\ feeder = "running"
    /\ outcome = <<>>
    /\ Len(received) < MaxRecords
    /\ received' = Append(received,
                          ClientFunding(Len(received), call.symbol, t))
    /\ IF IsException(to_funding_rate(ClientFunding(Len(received),
                                                    call.symbol, t)))
       THEN /\ outcome' = to_funding_rate(ClientFunding(Len(received),
                                                        call.symbol, t))
            /\ collected' = collected
       ELSE /\ collected' =
                ListAppend(collected,
                           to_funding_rate(ClientFunding(Len(received),
                                                         call.symbol, t)))
            /\ outcome' = outcome
    /\ UNCHANGED <<call, feeder>>
    /\ UNCHANGED notClient

\* the paginator is exhausted: the async for ends; return bars / rates
PaginatorEnds ==
    /\ feeder = "running"
    /\ outcome = <<>>
    /\ feeder' = "ended"
    /\ outcome' = Returns(collected)
    /\ UNCHANGED <<call, received, collected>>
    /\ UNCHANGED notClient

\* mutant of the failure path: the records collected so far are returned
PaginatorRaises_Partial(err) ==
    /\ feeder = "running"
    /\ outcome = <<>>
    /\ feeder' = "raised"
    /\ outcome' = Returns(collected)
    /\ UNCHANGED <<call, received, collected>>
    /\ UNCHANGED notClient

\* a page request of the paginator fails: the exception comes out of the
\* async for, nothing in the client catches it
PaginatorRaises(err) ==
    /\ feeder = "running"
    /\ outcome = <<>>
    /\ feeder' = "raised"
    /\ outcome' = [exception |-> err]
    /\ UNCHANGED <<call, received, collected>>
    /\ UNCHANGED notClient

ClientNext ==
    \/ \E t \in ClientTexts : TimeBarsReceives(t)
    \/ \E t \in ClientTexts : FuturesTimeBarsReceives(t)
    \/ \E t \in ClientTexts : FundingRatesReceives(t)
    \/ PaginatorEnds
    \/ \E err \in HttpxErrors : PaginatorRaises(err)

ClientSpec == ClientInit /\ [][ClientNext]_vars

\* ======================================================= properties
IsKlines == method \in KlineMethods
IsFunding == method = "funding_rates"
Called == pc # "setup"

PageCap == IF IsKlines THEN KLINE_PAGE ELSE FUNDING_PAGE

\* timestamp of a wire row, and the instant it ends
RowTime(row) == IF IsKlines THEN row[0] ELSE row.fundingTime
RowEnd(row) == IF IsKlines THEN row[6] ELSE row.fundingTime

ParseRow(row) ==
    IF IsKlines THEN _parse_rest_kline(row) ELSE _parse_funding_rate(row)

RECURSIVE ParseAll(_)
ParseAll(rows) ==
    IF rows = <<>> THEN <<>>
    ELSE <<ParseRow(Head(rows))>> \o ParseAll(Tail(rows))

RECURSIVE Concat(_)
Concat(pages) ==
    IF pages = <<>> THEN <<>> ELSE Head(pages) \o Concat(Tail(pages))

\* what one unpaged fetch of the inclusive range returns
InRange ==
    SelectSeq(source,
              LAMBDA row : /\ start_ms <= RowTime(row)
                           /\ end_ms # None => RowTime(row) <= end_ms)

NoRepeat(s) == \A a, b \in 1..Len(s) : a # b => s[a] # s[b]

\* C1: fetch_klines over a dataset of two or more pages emits exactly the
\* klines whose open time lies in [start_ms, end_ms], none repeated and
\* none skipped.
C1_KlinesEmitInclusiveRange ==
    (IsKlines /\ pc = "done" /\ Len(InRange) > KLINE_PAGE)
        => /\ emitted = ParseAll(InRange)
           /\ NoRepeat(emitted)

\* C2: fetch_funding_rates emits exactly the settlements whose time lies in
\* [start_ms, end_ms] (from start_ms onward when end_ms is omitted), none
\* repeated and none skipped.
C2_FundingEmitsRange ==
    (IsFunding /\ pc = "done")
        => /\ emitted = ParseAll(InRange)
           /\ NoRepeat(emitted)

C2_Witness ==
    /\ IsFunding
    /\ pc = "done"
    /\ Len(responses) >= 2
    /\ Len(emitted) > FUNDING_PAGE
    /\ Len(InRange) < Len(source)

\* C3: every record of page n+1 has a timestamp strictly greater than the
\* end time of the last record of page n.
C3_NextPageAfterLastEnd ==
    \A n \in 1..(Len(responses) - 1) :
        responses[n] # <<>> =>
            \A k \in 1..Len(responses[n + 1]) :
                RowTime(responses[n + 1][k]) > RowEnd(Last(responses[n]))

C3_Witness ==
    /\ IsKlines
    /\ Len(responses) >= 2
    /\ responses[2] # <<>>
    /\ Last(responses[1])[6] = Last(responses[1])[0]

\* C4 as stated: a dataset of k*P in-range klines (k >= 1) costs exactly
\* k+1 requests, the last returning zero records.
C4_KlinesExactMultipleCostsExtraRequest ==
    (IsKlines /\ pc = "done" /\ InRange # <<>>
              /\ Len(InRange) % KLINE_PAGE = 0)
        => /\ Len(requests) = (Len(InRange) \div KLINE_PAGE) + 1
           /\ Last(responses) = <<>>

\* C4 amended: the extra, empty request is issued exactly when end_ms lies
\* beyond (close time of the last in-range kline) + 1; otherwise the
\* invocation stops after at most k requests, none of them empty.
C4_KlinesExactMultipleRequests ==
    (IsKlines /\ pc = "done" /\ InRange # <<>>
              /\ Len(InRange) % KLINE_PAGE = 0)
        => IF Last(InRange)[6] + 1 < end_ms
           THEN /\ Len(requests) = (Len(InRange) \div KLINE_PAGE) + 1
                /\ Last(responses) = <<>>
           ELSE /\ Len(requests) <= Len(InRange) \div KLINE_PAGE
                /\ \A n \in 1..Len(responses) : responses[n] # <<>>

C4_Witness ==
    /\ IsKlines
    /\ pc = "done"
    /\ InRange # <<>>
    /\ Len(InRange) % KLINE_PAGE = 0
    /\ Len(requests) = (Len(InRange) \div KLINE_PAGE) + 1
    /\ Last(responses) = <<>>

\* C5: fetch_funding_rates over k*P in-range settlements (k >= 1) issues
\* exactly k+1 requests, the last of which returns zero records.
C5_FundingExactMultipleCostsExtraRequest ==
    (IsFunding /\ pc = "done" /\ InRange # <<>>
               /\ Len(InRange) % FUNDING_PAGE = 0)
        => /\ Len(requests) = (Len(InRange) \div FUNDING_PAGE) + 1
           /\ Last(responses) = <<>>

C5_Witness ==
    /\ IsFunding
    /\ pc = "done"
    /\ InRange # <<>>
    /\ Len(InRange) % FUNDING_PAGE = 0
    /\ Len(requests) >= 2

C7_FundingNoRequestAtOrPastEnd ==
    (IsFunding /\ Called /\ end_ms # None)
        => /\ \A n \in 1..Len(requests) : requests[n].startTime < end_ms
           /\ start_ms >= end_ms => emitted = <<>>

\* C8: a response of fewer than P records is the final page: no request
\* follows it, and the invocation ends having emitted all its records.
C8_ShortPageIsFinal ==
    \A n \in 1..Len(responses) :
        Len(responses[n]) < PageCap
            => /\ Len(requests) = n
               /\ pc \in {"for", "done"}
               /\ pc = "done" => emitted = ParseAll(Concat(responses))

C8_Witness ==
    /\ pc = "done"
    /\ Len(responses) >= 2
    /\ Last(responses) # <<>>
    /\ Len(Last(responses)) < PageCap
    /\ Len(InRange) < Len(source)

\* C9: the first request starts at start_ms; every later one starts at
\* (end time of the last record of the previous, full page) + 1.
C9_CursorRule ==
    /\ requests # <<>> => requests[1].startTime = start_ms
    /\ \A n \in 2..Len(requests) :
           /\ Len(responses[n - 1]) = PageCap
           /\ requests[n].startTime = RowEnd(Last(responses[n - 1])) + 1

C9_Witness ==
    /\ IsKlines
    /\ Len(requests) >= 2
    /\ Last(responses[1])[6] > Last(responses[1])[0]
    /\ start_ms > 0

\* C10: requests are strictly sequential: at most one is outstanding, one
\* is issued only when every record received so far has been emitted, and
\* the emitted records are the received ones in receipt order.
C10_Sequential ==
    /\ in_flight <= 1
    /\ Len(requests) = Len(responses) + in_flight
    /\ pc = "await" => /\ in_flight = 1
                       /\ emitted = ParseAll(Concat(responses))
    /\ Len(emitted) <= Len(Concat(responses))
    /\ emitted = ParseAll(SubSeq(Concat(responses), 1, Len(emitted)))

C10_Witness ==
    /\ pc = "await"
    /\ Len(requests) >= 2
    /\ Len(emitted) >= 2

Ended == pc \in {"done", "raised"}

\* C11: an invocation whose consumer keeps reading ends, and it ends after
\* finitely many requests: never more than one per record of the dataset,
\* plus one.
C11_PaginationTerminates ==
    /\ [](Len(requests) <= Len(source) + 1)
    /\ (Called ~> Ended)

C11_Witness ==
    /\ pc = "done"
    /\ Len(requests) >= 3
    /\ Len(emitted) = Len(source)

\* C12: a failed page request ends the invocation with the error: no
\* request follows it, and everything received before was already emitted.
C12_FailureEndsPagination ==
    /\ error # "" <=> pc = "raised"
    /\ error # "" => /\ in_flight = 0
                     /\ Len(requests) = Len(responses) + 1
                     /\ emitted = ParseAll(Concat(responses))

C12_Witness ==
    /\ pc = "raised"
    /\ error = "HTTPStatusError"
    /\ Len(responses) >= 1
    /\ Len(emitted) >= MaxPage

\* the payload entries each record is built from
WireFields(name) ==
    CASE name = "_parse_rest_kline" -> 0..10
      [] name = "_parse_ws_kline" ->
             {"t", "o", "h", "l", "c", "v", "T", "q", "n", "V", "Q"}
      [] name = "_parse_rest_trade" ->
             {"id", "price", "qty", "quoteQty", "time", "isBuyerMaker"}
      [] name = "_parse_ws_trade" -> {"t", "p", "q", "T", "m"}
      [] name = "_parse_funding_rate" ->
             {"symbol", "fundingTime", "fundingRate", "markPrice"}
      [] name = "_parse_mark_price" ->
             {"symbol", "markPrice", "indexPrice", "lastFundingRate",
              "nextFundingTime", "time"}
      [] name = "_parse_ws_mark_price" -> {"s", "p", "i", "r", "T", "E"}

HasParsed == DOMAIN parsed # {}

\* C16: a payload lacking a field of the record makes the parser fail; no
\* record is built with a default in the place of a missing field.
C16_MissingFieldFails ==
    (HasParsed /\ ~(WireFields(parser) \subseteq DOMAIN payload))
        => IsException(parsed)

IsFinal(data) == data.k.x

\* C13: stream_klines yields exactly the closed klines of the feed, in
\* arrival order: one record per final message, none for a partial one.
C13_KlineGating ==
    stream \in KlineStreams =>
        LET finals == SelectSeq(feed, IsFinal)
        IN  /\ Len(out) = Len(finals)
            /\ \A j \in 1..Len(out) :
                   /\ out[j].open_time_ms = finals[j].k.t
                   /\ out[j].close_time_ms = finals[j].k.T
                   /\ out[j].close = finals[j].k.c

C13_Witness ==
    /\ stream \in KlineStreams
    /\ Len(feed) = 8
    /\ Len(SelectSeq(feed, IsFinal)) = 3
    /\ Len(out) = 3
    /\ ~IsFinal(feed[1])
    /\ IsFinal(feed[8])

\* C14: stream_trades and stream_mark_price yield one record per message
\* received, in arrival order.
C14_ForwardEveryMessage ==
    /\ stream \in TradeStreams =>
           /\ Len(out) = Len(feed)
           /\ \A j \in 1..Len(out) :
                  /\ out[j].id = feed[j].t
                  /\ out[j].is_buyer_maker = feed[j].m
    /\ stream \in MarkPriceStreams =>
           /\ Len(out) = Len(feed)
           /\ \A j \in 1..Len(out) :
                  /\ out[j].time_ms = feed[j].E
                  /\ out[j].last_funding_rate = feed[j].r

C14_Witness ==
    /\ stream \in TradeStreams
    /\ Len(out) >= 3
    /\ \E a, b \in 1..Len(feed) : feed[a].m /\ ~feed[b].m

\* C15: one connection per invocation; once it has closed or failed nothing
\* more is yielded and no connection is opened again.
C15_NoReconnect ==
    /\ [](connections <= 1)
    /\ [](ws # "none" => connections = 1)
    /\ [][(ws \in {"closed", "failed"})
             => (ws' = ws /\ out' = out /\ connections' = connections)]_vars

C15_Witness ==
    /\ ws = "failed"
    /\ connections = 1
    /\ Len(out) >= 2

Returned == policy # "none"

\* what one trade adds to the accumulator of the policy in force
Contribution(trade) ==
    IF policy = "dollar" THEN trade.price * trade.quantity
    ELSE trade.quantity

RECURSIVE ContributionUpTo(_, _)
ContributionUpTo(ts, n) ==
    IF n = 0 THEN 0
    ELSE ContributionUpTo(ts, n - 1) + Contribution(ts[n])

RECURSIVE QuantityUpTo(_, _)
QuantityUpTo(ts, n) ==
    IF n = 0 THEN 0 ELSE QuantityUpTo(ts, n - 1) + ts[n].quantity

WithinOneTrade(b) ==
    /\ ContributionUpTo(b, Len(b)) >= threshold
    /\ \E k \in 1..Len(b) :
           ContributionUpTo(b, Len(b)) < threshold + Contribution(b[k])

\* C18 as stated: every bucket of build_volume_bars and build_dollar_bars
\* closes with a sum >= threshold and < threshold + its largest single
\* contribution.
C18_OvershootBelowOneTrade ==
    policy \in {"volume", "dollar"} =>
        /\ Len(buckets) = Len(bars)
        /\ \A k \in 1..Len(buckets) : WithinOneTrade(buckets[k])

\* C18 amended: the same, for a threshold greater than zero.
C18_OvershootBelowOneTradePositive ==
    (policy \in {"volume", "dollar"} /\ threshold > 0) =>
        /\ Len(buckets) = Len(bars)
        /\ \A k \in 1..Len(buckets) :
               /\ WithinOneTrade(buckets[k])
               /\ closing[k] = ContributionUpTo(buckets[k], Len(buckets[k]))

C18_Witness ==
    /\ policy = "dollar"
    /\ threshold = 3
    /\ Len(bars) = 2
    /\ closing[1] = 4
    /\ closing[2] = 3

\* C19: every bar of the three aggregators, for any threshold, has
\* low <= open <= high, low <= close <= high and trade_count >= 1.
C19_BarOHLC ==
    Returned =>
        \A k \in 1..Len(bars) :
            /\ bars[k].low <= bars[k].open
            /\ bars[k].open <= bars[k].high
            /\ bars[k].low <= bars[k].close
            /\ bars[k].close <= bars[k].high
            /\ bars[k].trade_count >= 1

C19_Witness ==
    /\ Returned
    /\ \E k \in 1..Len(bars) :
           /\ bars[k].low < bars[k].high
           /\ bars[k].open < bars[k].close
    /\ \E k \in 1..Len(bars) : bars[k].low = bars[k].high

\* C20: every bar is synthesised from its bucket (a slice of the input):
\* open/close are the first/last price, high/low the largest/smallest price,
\* volume the sum of the quantities, trade_count the size, timestamp and
\* close_time the first and last timestamps.
C20_BarSynthesis ==
    Returned =>
        /\ Len(buckets) = Len(bars)
        /\ Concat(buckets) \o bucket = trades
        /\ \A k \in 1..Len(bars) :
               LET b == buckets[k]
                   bar == bars[k]
               IN  /\ bar.open = b[1].price
                   /\ bar.close = b[Len(b)].price
                   /\ \E n \in 1..Len(b) : bar.high = b[n].price
                   /\ \A n \in 1..Len(b) : b[n].price <= bar.high
                   /\ \E n \in 1..Len(b) : bar.low = b[n].price
                   /\ \A n \in 1..Len(b) : bar.low <= b[n].price
                   /\ bar.volume = QuantityUpTo(b, Len(b))
                   /\ bar.trade_count = Len(b)
                   /\ bar.timestamp = b[1].timestamp
                   /\ bar.close_time = b[Len(b)].timestamp

C20_Witness ==
    /\ policy = "dollar"
    /\ \E k \in 1..Len(bars) :
           /\ bars[k].trade_count = 3
           /\ bars[k].open < bars[k].high
           /\ bars[k].close < bars[k].high
           /\ bars[k].volume < closing[k]
           /\ bars[k].timestamp < bars[k].close_time

\* ------------------------------------------------ C21..C24, C30
\* number of trades in the first k bars
RECURSIVE TradesInBars(_, _)
TradesInBars(bs, k) ==
    IF k = 0 THEN 0 ELSE TradesInBars(bs, k - 1) + bs[k].trade_count

\* the _make_*_bar call of the policy in force
MakeBar(b) ==
    CASE policy = "volume" -> _make_volume_bar(b, threshold)
      [] policy = "tick" -> _make_tick_bar(b, threshold)
      [] policy = "dollar" -> _make_dollar_bar(b, threshold)

\* a run of trades reaches the threshold of the policy in force
Reached(b) ==
    IF policy = "tick" THEN Len(b) >= threshold
    ELSE ContributionUpTo(b, Len(b)) >= threshold

\* C21: for the three aggregators the bars are built, in output order, from
\* consecutive slices of the input that together form a prefix of it; each
\* slice reaches the threshold; the trades after the prefix are the open
\* bucket at the end of the input, they do not reach the threshold and are
\* in no bar.
C21_TrailingBucketDiscarded ==
    Returned =>
        LET n == TradesInBars(bars, Len(bars))
        IN  /\ n <= Len(trades)
            /\ \A k \in 1..Len(bars) :
                   LET slice == SubSeq(trades, TradesInBars(bars, k - 1) + 1,
                                       TradesInBars(bars, k))
                   IN  /\ bars[k].trade_count >= 1
                       /\ bars[k] = MakeBar(slice)
                       /\ Reached(slice)
            /\ bucket = SubSeq(trades, n + 1, Len(trades))
            /\ bucket # <<>> => ~Reached(bucket)

C21_Witness ==
    /\ policy = "dollar"
    /\ Len(bars) = 2
    /\ Len(bucket) = 2

IsPrefix(a, b) == Len(a) <= Len(b) /\ a = SubSeq(b, 1, Len(a))

Ordered(ts) ==
    \A k \in 1..(Len(ts) - 1) : ts[k].timestamp <= ts[k + 1].timestamp

\* C24: over trades in non-decreasing timestamp order with non-negative
\* quantities, every bar of the three aggregators has
\* timestamp <= close_time and volume >= 0.
C24_BarInstantsAndVolume ==
    (/\ Returned
     /\ Ordered(trades)
     /\ \A k \in 1..Len(trades) : trades[k].quantity >= 0)
        => \A k \in 1..Len(bars) :
               /\ bars[k].timestamp <= bars[k].close_time
               /\ bars[k].volume >= 0

C24_Witness ==
    /\ Returned
    /\ \E k \in 1..Len(bars) : bars[k].timestamp < bars[k].close_time
    /\ \E k \in 1..Len(bars) : bars[k].timestamp = bars[k].close_time

RECURSIVE Quantities(_)
Quantities(ts) ==
    IF ts = <<>> THEN <<>> ELSE <<Head(ts).quantity>> \o Quantities(Tail(ts))

\* C23: build_volume_bars on seven trades of quantities 1,1,1,2,1,1,1 with
\* threshold 4 returns exactly one bar, built from trades 1 to 4, with
\* volume 5 and trade_count 4; trades 5 to 7 (cumulative 3 < 4) are in no
\* bar.
C23_VolumeScenario ==
    (/\ policy = "volume"
     /\ threshold = 4
     /\ Quantities(trades) = <<1, 1, 1, 2, 1, 1, 1>>)
        => /\ Len(bars) = 1
           /\ bars[1].volume = 5
           /\ bars[1].trade_count = 4
           /\ bars[1].open = trades[1].price
           /\ bars[1].close = trades[4].price
           /\ bars[1].timestamp = trades[1].timestamp
           /\ bars[1].close_time = trades[4].timestamp
           /\ bars[1].volume_threshold = 4
           /\ closing = <<5>>
           /\ bucket = SubSeq(trades, 5, 7)
           /\ cum = 3

C23_Witness ==
    /\ policy = "volume"
    /\ threshold = 4
    /\ Len(trades) = 7
    /\ trades[4].quantity = 2
    /\ Len(bars) = 1
    /\ Len(bucket) = 3

\* the threshold field of a bar
ThresholdField(bar) ==
    CASE bar.bar_type = "volume" -> bar.volume_threshold
      [] bar.bar_type = "tick" -> bar.tick_threshold
      [] bar.bar_type = "dollar" -> bar.dollar_threshold

\* C30: the accumulator restarts from zero after each emission: the
\* accumulator at each closure is the sum over that bar's own bucket; in
\* build_volume_bars every bar's volume equals the accumulator at its
\* closure and is >= the threshold; the threshold field of every bar is the
\* caller's threshold.
C30_ResetAfterEmission ==
    Returned =>
        /\ Len(closing) = Len(bars)
        /\ Len(buckets) = Len(bars)
        /\ \A k \in 1..Len(bars) :
               /\ ThresholdField(bars[k]) = threshold
               /\ policy \in {"volume", "dollar"} =>
                      closing[k] = ContributionUpTo(buckets[k],
                                                    Len(buckets[k]))
               /\ policy = "volume" =>
                      /\ bars[k].volume = closing[k]
                      /\ bars[k].volume >= threshold

C30_Witness ==
    /\ policy = "volume"
    /\ threshold = 3
    /\ Len(bars) = 2
    /\ closing[1] = 4
    /\ bars[2].volume = 3
    /\ bars[1].volume_threshold = 3

\* ------------------------------------------------------- C26..C28
\* seconds in one unit of an interval value
UnitSeconds(u) ==
    CASE u = "m" -> 60
      [] u = "h" -> 60 * 60
      [] u = "d" -> 24 * 60 * 60
      [] u = "w" -> 7 * 24 * 60 * 60
      [] u = "M" -> 30 * 24 * 60 * 60

NominalSeconds(iv) == iv[1] * UnitSeconds(iv[2])

\* C26: both interval tables have an entry for every KlineInterval value,
\* equal to its nominal duration in seconds (a month being 30 days); the
\* tables are equal; to_time_bar and to_futures_time_bar return equal
\* TimeBars for equal inputs and do not fail on the interval lookup.
C26_IntervalTable ==
    /\ DOMAIN _INTERVAL_SECONDS = KlineInterval
    /\ DOMAIN futures_INTERVAL_SECONDS = KlineInterval
    /\ \A iv \in KlineInterval :
           /\ _INTERVAL_SECONDS[iv] = NominalSeconds(iv)
           /\ futures_INTERVAL_SECONDS[iv] = _INTERVAL_SECONDS[iv]
    /\ (normalizer \in KlineNormalizers /\ normalized # <<>>) =>
           /\ ~IsException(normalized)
           /\ normalized.interval_seconds = NominalSeconds(interval)
           /\ normalized = to_time_bar(raw, SYMBOL, interval)
           /\ normalized = to_futures_time_bar(raw, SYMBOL, interval)

C26_Witness ==
    /\ normalizer = "to_futures_time_bar"
    /\ interval = <<1, "M">>
    /\ normalized # <<>>
    /\ normalized.interval_seconds = 2592000

\* str(d) of a Decimal: plain notation while the exponent is <= 0 and the
\* first digit is no further than six places right of the point,
\* scientific notation otherwise
DecimalStr(d) ==
    LET leftdigits == d.exp + Len(d.int)
        dotplace == IF d.exp <= 0 /\ leftdigits > 0 - 6
                    THEN leftdigits ELSE 1
        intpart == IF dotplace <= 0 THEN <<"0">>
                   ELSE IF dotplace >= Len(d.int)
                        THEN d.int \o Zeros(dotplace - Len(d.int))
                   ELSE SubSeq(d.int, 1, dotplace)
        fracpart == IF dotplace <= 0
                    THEN <<".">> \o Zeros(0 - dotplace) \o d.int
                    ELSE IF dotplace >= Len(d.int) THEN <<>>
                    ELSE <<".">> \o SubSeq(d.int, dotplace + 1, Len(d.int))
        e == leftdigits - dotplace
        exp == IF e = 0 THEN <<>>
               ELSE <<"E", IF e < 0 THEN "-" ELSE "+">>
                        \o IntText(IF e < 0 THEN 0 - e ELSE e)
    IN  (IF d.sign = 1 THEN <<"-">> ELSE <<>>) \o intpart \o fracpart \o exp

\* str(d) is in plain notation
Plain(d) == d.exp <= 0 /\ d.exp + Len(d.int) > 0 - 6

\* the decimal fields of each normalizer's result and the raw field each
\* is converted from
DecimalFields ==
    CASE normalizer \in KlineNormalizers ->
             {<<normalized.open, raw.open>>, <<normalized.high, raw.high>>,
              <<normalized.low, raw.low>>, <<normalized.close, raw.close>>,
              <<normalized.volume, raw.volume>>}
      [] normalizer = "to_trade" ->
             {<<normalized.price, raw.price>>,
              <<normalized.quantity, raw.qty>>}
      [] normalizer = "to_funding_rate" ->
             {<<normalized.funding_rate, raw.funding_rate>>,
              <<normalized.mark_price, raw.mark_price>>}
      [] normalizer = "to_current_funding_rate" ->
             {<<normalized.funding_rate, raw.last_funding_rate>>,
              <<normalized.mark_price, raw.mark_price>>}

\* C27: every decimal field of a normalized value has the sign, the digits
\* and the number of fraction digits of its wire text (no trailing zero
\* lost, nothing rounded); its string form converts back to the same
\* decimal, and is the wire text itself whenever it is in plain notation
\* ("0.00010000" stays "0.00010000").
C27_DecimalRoundTrip ==
    normalized # <<>> =>
        /\ ~IsException(normalized)
        /\ \A f \in DecimalFields :
               LET d == f[1]
                   t == f[2]
                   p == TextParts(t)
               IN  /\ d.sign = (IF p.neg THEN 1 ELSE 0)
                   /\ d.exp = 0 - Len(p.frac)
                   /\ d.int = StripZeros(p.int \o p.frac)
                   /\ Decimal(DecimalStr(d)) = d
                   /\ Plain(d) => DecimalStr(d) = t

C27_Witness ==
    /\ normalizer = "to_funding_rate"
    /\ normalized # <<>>
    /\ raw.funding_rate = <<"0", ".", "0", "0", "0", "1", "0", "0", "0", "0">>
    /\ DecimalStr(normalized.funding_rate) = raw.funding_rate
    /\ normalized.funding_rate.int = <<"1", "0", "0", "0", "0">>
    /\ normalized.funding_rate.exp = 0 - 8

\* C28: a FundingRate returned by to_funding_rate has no next_funding_time;
\* one returned by to_current_funding_rate has it, converted from
\* next_funding_time_ms.
C28_NextFundingTime ==
    /\ (normalizer = "to_funding_rate" /\ normalized # <<>>) =>
           normalized.next_funding_time = NoDatetime
    /\ (normalizer = "to_current_funding_rate" /\ normalized # <<>>) =>
           /\ normalized.next_funding_time # NoDatetime
           /\ normalized.next_funding_time.second * 1000
                  + normalized.next_funding_time.microsecond \div 1000
                  = raw.next_funding_time_ms
           /\ normalized.next_funding_time.microsecond % 1000 = 0

C28_Witness ==
    /\ normalizer = "to_current_funding_rate"
    /\ normalized # <<>>
    /\ raw.next_funding_time_ms = 2000
    /\ normalized.next_funding_time.second = 2
    /\ normalized.timestamp.microsecond = 500000

\* the methods that resolve their symbol
ResolvingMethods ==
    {"place_order", "open_orders", "position", "best_bid", "best_ask"}

\* the last broker call was one of them and named a symbol absent from
\* symbol_map
UnknownSymbolCall ==
    /\ op # <<>>
    /\ op.name \in ResolvingMethods
    /\ op.symbol # Nothing
    /\ op.symbol[1] \notin Keys(symbol_map)

\* C29 as stated: place_order, open_orders(symbol), position, best_bid and
\* best_ask called with a symbol absent from symbol_map fail with
\* ValueError and send no request to the exchange.
C29_UnknownSymbolValueError ==
    UnknownSymbolCall => (result = ValueError /\ sent = <<>>)

\* C29, amended: open_orders(symbol), position, best_bid, best_ask, and
\* place_order given a PerpOrder, called with a symbol absent from
\* symbol_map, fail with ValueError; place_order given any other Order
\* fails with TypeError whatever its symbol; in both cases no request is
\* sent to the exchange and symbol_map and its reverse map are unchanged.
C29_UnknownSymbolBeforeAnyRequest ==
    [][/\ (op' # <<>> /\ op'.name = "place_order"
               /\ op'.order[1].cls # "PerpOrder")
           => (result' = TypeError /\ sent' = <<>>)
       /\ (/\ op' # <<>>
           /\ op'.name \in ResolvingMethods
           /\ op'.symbol # Nothing
           /\ op'.symbol[1] \notin Keys(symbol_map)
           /\ (op'.name = "place_order"
                   => op'.order[1].cls = "PerpOrder"))
           => (/\ result' = ValueError
               /\ sent' = <<>>
               /\ symbol_map' = symbol_map
               /\ index_map' = index_map)]_vars

C29_Witness ==
    /\ UnknownSymbolCall
    /\ op.name = "place_order"
    /\ op.order[1].cls = "PerpOrder"
    /\ op.symbol = Some("SOL-USDC")
    /\ symbol_map # <<>>
    /\ result = ValueError
    /\ sent = <<>>

\* what one invocation emits when it runs alone: the pages it requests one
\* after the other, from the cursor c on
RECURSIVE RunAlone(_, _, _)
RunAlone(m, c, e) ==
    IF ~ConcWhile(m, c, e) THEN <<>>
    ELSE LET b == Serve(m, ConcParams(m, c, e))
         IN  [k \in 1..Len(b) |-> ConcParse(m, b[k])]
                 \o (IF ConcLastPage(m, b) THEN <<>>
                     ELSE RunAlone(m, ConcNextCursor(m, b), e))

\* C25: two invocations of one connector, interleaved in every way at their
\* requests and emissions: what each has emitted is at every moment a
\* prefix of what it emits when run alone, and all of it once it has
\* returned; and a step of one invocation leaves the other's cursor and
\* other locals as they were.
C25_IndependentInvocations ==
    /\ [](\A k \in DOMAIN frames :
              /\ IsPrefix(frames[k].emitted,
                          RunAlone(frames[k].method, frames[k].start_ms,
                                   frames[k].end_ms))
              /\ (frames[k].pc = "done")
                     => (frames[k].emitted
                             = RunAlone(frames[k].method, frames[k].start_ms,
                                        frames[k].end_ms)))
    /\ [][\A k \in Invocations :
              (frames'[k] # frames[k])
                  => (\A j \in Invocations \ {k} : frames'[j] = frames[j])]_vars

C25_Witness ==
    /\ connector = "BinanceFuturesConnector"
    /\ frames[1].method = "futures_klines"
    /\ frames[2].method = "funding_rates"
    /\ frames[1].pc = "done"
    /\ frames[2].pc = "done"
    /\ Len(frames[1].emitted) >= 3
    /\ Len(frames[2].emitted) >= 3
    /\ Len(wire) >= 4
    /\ wire[1].by = 1
    /\ wire[2].by = 2
    /\ wire[3].by = 1
    /\ wire[4].by = 2

\* a message stream_klines cannot handle
IsMalformed(message) == IsException(StreamKlinesBody(message))

\* C33: a message of a kline stream that is not decodable, or lacks the
\* kline object or its closed indicator, ends the generator with the
\* exception: it is the last message the generator reads, nothing is
\* yielded for it, and from then on nothing is read or forwarded.
C33_MalformedMessageEndsStream ==
    /\ [](\A n \in 1..Len(feed) :
              (stream \in KlineStreams /\ IsMalformed(feed[n]))
                  => /\ n = Len(feed)
                     /\ raised \in {"JSONDecodeError", "KeyError"}
                     /\ ws = "closed"
                     /\ Len(out) <= n - 1)
    /\ [][(raised # "") => (out' = out /\ feed' = feed /\ raised' = raised)]_vars

C33_Witness ==
    /\ stream = "futures.stream_klines"
    /\ Len(feed) >= 3
    /\ "k" \notin DOMAIN Last(feed)
    /\ "e" \in DOMAIN Last(feed)
    /\ raised = "KeyError"
    /\ ws = "closed"
    /\ Len(out) >= 1

\* C34: in one invocation of fetch_klines or fetch_funding_rates every
\* request starts later than the one before it (the exchange returning
\* only records that end at or after the requested startTime), and all
\* requests carry the same endTime and the same limit.
C34_CursorStrictlyIncreases ==
    \A n \in 1..(Len(requests) - 1) :
        /\ requests[n].startTime < requests[n + 1].startTime
        /\ requests[n + 1].endTime = requests[n].endTime
        /\ requests[n + 1].limit = requests[n].limit

C34_Witness ==
    /\ method = "funding_rates"
    /\ pc = "done"
    /\ Len(requests) >= 3
    /\ requests[1].startTime < requests[2].startTime
    /\ requests[2].startTime < requests[3].startTime
    /\ requests[3].endTime = end_ms

C36_BarsChronological ==
    (Returned /\ Ordered(trades)) =>
        \A k \in 1..(Len(bars) - 1) :
            bars[k].close_time <= bars[k + 1].timestamp

C36_Witness ==
    /\ policy = "tick"
    /\ threshold = 2
    /\ Len(bars) = 2
    /\ bars[1].timestamp < bars[1].close_time
    /\ bars[1].close_time < bars[2].timestamp

\* a text that reads as an integer: an optional sign and digits
IsIntText(t) ==
    /\ Unsigned(t) # <<>>
    /\ \A k \in 1..Len(Unsigned(t)) : IsDigit(Unsigned(t)[k])

\* a text of the form <int>:<int>
IsPairOfInts(t) ==
    \E k \in 1..Len(t) :
        /\ t[k] = ":"
        /\ IsIntText(SubSeq(t, 1, k - 1))
        /\ IsIntText(SubSeq(t, k + 1, Len(t)))

\* the last broker call was cancel_order
CancelOrderCall == op # <<>> /\ op.name = "cancel_order"

\* C37: cancel_order with an order id that is not of the form <int>:<int>
\* raises nothing, returns an OrderResult with an error and no order id,
\* and sends no request.
C37_BadOrderIdNotSent ==
    (CancelOrderCall /\ ~IsPairOfInts(op.order_id[1])) =>
        /\ ~IsException(result)
        /\ result.returned.error # Nothing
        /\ result.returned.order_id = Nothing
        /\ sent = <<>>

C37_Witness ==
    /\ CancelOrderCall
    /\ op.order_id = Some(<<"1", ":", "2", ":", "3">>)
    /\ result.returned.error = Some(InvalidOrderId)
    /\ result.returned.order_id = Nothing
    /\ sent = <<>>

\* C38: every OrderResult that place_order, cancel_order or
\* cancel_all_orders returns has no order id when it has an error, and is
\* ok exactly when it has no error; the result of place_order carries the
\* submitted order, with or without an error.
C38_OrderResultShape ==
    (/\ op # <<>>
     /\ op.name \in {"place_order", "cancel_order", "cancel_all_orders"}
     /\ ~IsException(result)) =>
        /\ (result.returned.error # Nothing)
               => (result.returned.order_id = Nothing)
        /\ ok(result.returned) <=> (result.returned.error = Nothing)
        /\ (op.name = "place_order") => (result.returned.order = op.order)

C38_Witness ==
    /\ op # <<>>
    /\ op.name = "place_order"
    /\ sent # <<>>
    /\ result.returned.error = Some("rejected")
    /\ result.returned.order_id = Nothing
    /\ result.returned.order = op.order
    /\ ~ok(result.returned)

\* C39 as stated: for every symbol s of symbol_map,
\* _index_map[_symbol_map[s]] is s, whatever symbol_map the broker was
\* constructed with.
C39_ReverseLookupInverse ==
    \A s \in Keys(symbol_map) : Get(index_map, Get(symbol_map, s)) = s

\* C40: every order the caller got from open_orders carries the id
\* "{market_index}:{order_index}" of the raw order it was made from, and
\* cancel_order called with that id sends exactly one cancel, for that
\* market and that order, and does not report a malformed id.
C40_OrderIdRoundTrip ==
    /\ \A h \in held :
           h.id = IntText(h.market_index) \o <<":">> \o IntText(h.order_index)
    /\ CancelOrderCall =>
           \A h \in held :
               (h.id = op.order_id[1]) =>
                   /\ sent = <<[api |-> "cancel_order",
                                market_index |-> h.market_index,
                                order_index |-> h.order_index]>>
                   /\ result.returned.error # Some(InvalidOrderId)

C40_Witness ==
    /\ CancelOrderCall
    /\ op.order_id = Some(<<"1", ":", "4", "2">>)
    /\ \E h \in held : h.id = op.order_id[1] /\ h.market_index = 1
    /\ Len(sent) = 1
    /\ sent[1].market_index = 1
    /\ sent[1].order_index = 42
    /\ result.returned.order_id = Some("0x01")

\* the canonical record holds what the raw record holds
SameRecord(v, r) ==
    IF "open_time_ms" \in DOMAIN r
    THEN /\ v.timestamp = _ms_to_utc(r.open_time_ms)
         /\ v.close_time = _ms_to_utc(r.close_time_ms)
         /\ v.open = Decimal(r.open)
         /\ v.volume = Decimal(r.volume)
    ELSE /\ v.timestamp = _ms_to_utc(r.funding_time_ms)
         /\ v.symbol = r.symbol
         /\ v.funding_rate = Decimal(r.funding_rate)

\* C31: the list time_bars or funding_rates returns holds one canonical
\* record per raw record the paginator yielded, in the same order; every
\* TimeBar carries the caller's symbol and the number of seconds of the
\* caller's interval.
C31_OneToOneInOrder ==
    (outcome # <<>> /\ ~IsException(outcome)) =>
        /\ Len(outcome.returned) = Len(received)
        /\ \A n \in 1..Len(received) :
               /\ SameRecord(outcome.returned[n], received[n])
               /\ (call.interval # <<>>) =>
                      /\ outcome.returned[n].symbol = call.symbol
                      /\ outcome.returned[n].interval_seconds
                             = NominalSeconds(call.interval)

C31_Witness ==
    /\ call.method = "BinanceFuturesClient.time_bars"
    /\ call.symbol = "ETHUSDT"
    /\ call.interval = <<4, "h">>
    /\ outcome # <<>>
    /\ ~IsException(outcome)
    /\ Len(outcome.returned) = 3
    /\ outcome.returned[3].symbol = "ETHUSDT"
    /\ outcome.returned[3].interval_seconds = 14400
    /\ outcome.returned[1].timestamp.second = 0
    /\ outcome.returned[3].timestamp.second = 2

\* a raw record the paginator yielded cannot be converted
ConversionFailed ==
    \E n \in 1..Len(received) :
        \E f \in {"open", "funding_rate"} \cap DOMAIN received[n] :
            IsException(Decimal(received[n][f]))

\* C32: time_bars and funding_rates return a list only once the paginator
\* has ended normally and every record was converted; when a page request
\* or a conversion fails the call raises that exception and returns
\* nothing; and the outcome of a call is final.
C32_AllOrNothing ==
    /\ [](/\ (outcome # <<>> /\ ~IsException(outcome))
              => (feeder = "ended" /\ ~ConversionFailed)
          /\ (feeder = "raised")
              => (outcome # <<>> /\ IsException(outcome)
                      /\ outcome.exception \in HttpxErrors)
          /\ ConversionFailed
              => (outcome # <<>> /\ IsException(outcome)
                      /\ outcome.exception = "InvalidOperation"))
    /\ [][(outcome # <<>>) => (outcome' = outcome)]_vars

C32_Witness ==
    /\ call.method = "BinanceClient.time_bars"
    /\ feeder = "raised"
    /\ Len(received) = 2
    /\ Len(collected) = 2
    /\ outcome # <<>>
    /\ IsException(outcome)
    /\ outcome.exception = "HTTPStatusError"

====
